---- MODULE Spec2Model ----
(***************************************************************************)
(* Server core of the online Ludo game: board rules engine                 *)
(* (utils/gameRules.ts), game state machine and disconnect grace timers    *)
(* (services/GameService.ts) and the roll_dice / move_token intent         *)
(* handlers (handlers/gameHandlers.ts, handlers/connectionHandlers.ts),    *)
(* and the room lifecycle (services/RoomService.ts, roomHandlers.ts).     *)
(*                                                                         *)
(* Identifiers that the code inspects by shape (position ids, token ids,   *)
(* colours) are sequences of one-character strings, so that length,        *)
(* charAt, startsWith and endsWith are computed as the code computes them. *)
(* Array indices are 0-based as in the source; a TLA+ sequence s is read   *)
(* at s[i + 1].                                                            *)
(***************************************************************************)
EXTENDS Integers, Sequences, FiniteSets, TLC

VARIABLES
  gameStore,            \* keyed store "game:<roomCode>" -> persisted GameState
  roomStore,            \* keyed store "room:<roomCode>" -> persisted Room
  roomSpectators,       \* Room.spectators of each stored room
  disconnectionTimers,  \* ReconnectionService.disconnectionTimers: playerId -> roomCode
  lastEvent,            \* the last intent or timer event processed and its outcome;
                        \* sixesInRow: which six in a row of the roller's turn it was
  pendingRoll,          \* history: the accepted, non-skipped roll not yet followed by a move
  turnSixes,            \* history: sixes rolled in a row by one player since the last hand-over
  steps,                \* number of accepted rolls and moves so far
  drops,                \* number of disconnects so far
  matchmakingQueue,     \* sorted set "queue:matchmaking": member playerId -> score
  matchmakingPlayer,    \* keyed store "queue:player:<playerId>" -> QueuedPlayer
  clock,                \* the value that Date.now() returned last
  enqueueOrder,         \* history: the queued players in the order they were added
  playerSessions,       \* keyed store "session:<playerId>" -> PlayerSession
  tasks                 \* the handler invocations in flight: where each stands
                        \* and what it has read

\* The matchmaking queue and the clock that stamps its entries
queueVars == <<matchmakingQueue, matchmakingPlayer, clock, enqueueOrder>>

vars == <<gameStore, roomStore, roomSpectators, disconnectionTimers, lastEvent,
          pendingRoll, turnSixes, steps, drops, queueVars, playerSessions, tasks>>

----------------------------------------------------------------------------
(* Bounds of the exploration *)

MaxSteps == 5
MaxDrops == 1
MaxClock == 2
MaxDisconnects == 2

----------------------------------------------------------------------------
(* models/Player.ts, models/GameState.ts *)

RED    == <<"r","e","d">>
BLUE   == <<"b","l","u","e">>
GREEN  == <<"g","r","e","e","n">>
YELLOW == <<"y","e","l","l","o","w">>
PlayerColor == {RED, BLUE, GREEN, YELLOW}

CONNECTED    == "connected"
DISCONNECTED == "disconnected"
RECONNECTING == "reconnecting"

WAITING  == "waiting"
ROLLING  == "rolling"
MOVING   == "moving"
FINISHED == "finished"

\* diceValue: number | null
null == 0

----------------------------------------------------------------------------
(* utils/gameRules.ts: board topology *)

PATH_BLUE ==
  <<
     <<"B","0","4">>, <<"B","0","3">>, <<"B","0","2">>, <<"B","0","1">>, <<"B","0","0">>,
     <<"R","5","2">>, <<"R","4","2">>, <<"R","3","2">>, <<"R","2","2">>, <<"R","1","2">>,
     <<"R","0","2">>, <<"R","0","1">>, <<"R","0","0">>, <<"R","1","0">>, <<"R","2","0">>,
     <<"R","3","0">>, <<"R","4","0">>, <<"R","5","0">>, <<"G","0","5">>, <<"G","0","4">>,
     <<"G","0","3">>, <<"G","0","2">>, <<"G","0","1">>, <<"G","0","0">>, <<"G","1","0">>,
     <<"G","2","0">>, <<"G","2","1">>, <<"G","2","2">>, <<"G","2","3">>, <<"G","2","4">>,
     <<"G","2","5">>, <<"Y","0","0">>, <<"Y","1","0">>, <<"Y","2","0">>, <<"Y","3","0">>,
     <<"Y","4","0">>, <<"Y","5","0">>, <<"Y","5","1">>, <<"Y","5","2">>, <<"Y","4","2">>,
     <<"Y","3","2">>, <<"Y","2","2">>, <<"Y","1","2">>, <<"Y","0","2">>, <<"B","2","0">>,
     <<"B","2","1">>, <<"B","2","2">>, <<"B","2","3">>, <<"B","2","4">>, <<"B","2","5">>,
     <<"B","1","5">>, <<"B","1","4">>, <<"B","1","3">>, <<"B","1","2">>, <<"B","1","1">>,
     <<"B","1","0">>, <<"B","F">>
  >>

PATH_GREEN ==
  <<
     <<"G","2","1">>, <<"G","2","2">>, <<"G","2","3">>, <<"G","2","4">>, <<"G","2","5">>,
     <<"Y","0","0">>, <<"Y","1","0">>, <<"Y","2","0">>, <<"Y","3","0">>, <<"Y","4","0">>,
     <<"Y","5","0">>, <<"Y","5","1">>, <<"Y","5","2">>, <<"Y","4","2">>, <<"Y","3","2">>,
     <<"Y","2","2">>, <<"Y","1","2">>, <<"Y","0","2">>, <<"B","2","0">>, <<"B","2","1">>,
     <<"B","2","2">>, <<"B","2","3">>, <<"B","2","4">>, <<"B","2","5">>, <<"B","1","5">>,
     <<"B","0","5">>, <<"B","0","4">>, <<"B","0","3">>, <<"B","0","2">>, <<"B","0","1">>,
     <<"B","0","0">>, <<"R","5","2">>, <<"R","4","2">>, <<"R","3","2">>, <<"R","2","2">>,
     <<"R","1","2">>, <<"R","0","2">>, <<"R","0","1">>, <<"R","0","0">>, <<"R","1","0">>,
     <<"R","2","0">>, <<"R","3","0">>, <<"R","4","0">>, <<"R","5","0">>, <<"G","0","5">>,
     <<"G","0","4">>, <<"G","0","3">>, <<"G","0","2">>, <<"G","0","1">>, <<"G","0","0">>,
     <<"G","1","0">>, <<"G","1","1">>, <<"G","1","2">>, <<"G","1","3">>, <<"G","1","4">>,
     <<"G","1","5">>, <<"G","F">>
  >>

PATH_RED ==
  <<
     <<"R","1","0">>, <<"R","2","0">>, <<"R","3","0">>, <<"R","4","0">>, <<"R","5","0">>,
     <<"G","0","5">>, <<"G","0","4">>, <<"G","0","3">>, <<"G","0","2">>, <<"G","0","1">>,
     <<"G","0","0">>, <<"G","1","0">>, <<"G","2","0">>, <<"G","2","1">>, <<"G","2","2">>,
     <<"G","2","3">>, <<"G","2","4">>, <<"G","2","5">>, <<"Y","0","0">>, <<"Y","1","0">>,
     <<"Y","2","0">>, <<"Y","3","0">>, <<"Y","4","0">>, <<"Y","5","0">>, <<"Y","5","1">>,
     <<"Y","5","2">>, <<"Y","4","2">>, <<"Y","3","2">>, <<"Y","2","2">>, <<"Y","1","2">>,
     <<"Y","0","2">>, <<"B","2","0">>, <<"B","2","1">>, <<"B","2","2">>, <<"B","2","3">>,
     <<"B","2","4">>, <<"B","2","5">>, <<"B","1","5">>, <<"B","0","5">>, <<"B","0","4">>,
     <<"B","0","3">>, <<"B","0","2">>, <<"B","0","1">>, <<"B","0","0">>, <<"R","5","2">>,
     <<"R","4","2">>, <<"R","3","2">>, <<"R","2","2">>, <<"R","1","2">>, <<"R","0","2">>,
     <<"R","0","1">>, <<"R","1","1">>, <<"R","2","1">>, <<"R","3","1">>, <<"R","4","1">>,
     <<"R","5","1">>, <<"R","F">>
  >>

PATH_YELLOW ==
  <<
     <<"Y","4","2">>, <<"Y","3","2">>, <<"Y","2","2">>, <<"Y","1","2">>, <<"Y","0","2">>,
     <<"B","2","0">>, <<"B","2","1">>, <<"B","2","2">>, <<"B","2","3">>, <<"B","2","4">>,
     <<"B","2","5">>, <<"B","1","5">>, <<"B","0","5">>, <<"B","0","4">>, <<"B","0","3">>,
     <<"B","0","2">>, <<"B","0","1">>, <<"B","0","0">>, <<"R","5","2">>, <<"R","4","2">>,
     <<"R","3","2">>, <<"R","2","2">>, <<"R","1","2">>, <<"R","0","2">>, <<"R","0","1">>,
     <<"R","0","0">>, <<"R","1","0">>, <<"R","2","0">>, <<"R","3","0">>, <<"R","4","0">>,
     <<"R","5","0">>, <<"G","0","5">>, <<"G","0","4">>, <<"G","0","3">>, <<"G","0","2">>,
     <<"G","0","1">>, <<"G","0","0">>, <<"G","1","0">>, <<"G","2","0">>, <<"G","2","1">>,
     <<"G","2","2">>, <<"G","2","3">>, <<"G","2","4">>, <<"G","2","5">>, <<"Y","0","0">>,
     <<"Y","1","0">>, <<"Y","2","0">>, <<"Y","3","0">>, <<"Y","4","0">>, <<"Y","5","0">>,
     <<"Y","5","1">>, <<"Y","4","1">>, <<"Y","3","1">>, <<"Y","2","1">>, <<"Y","1","1">>,
     <<"Y","0","1">>, <<"Y","F">>
  >>

TOKEN_PATHS ==
  [c \in PlayerColor |->
     CASE c = BLUE   -> PATH_BLUE
       [] c = GREEN  -> PATH_GREEN
       [] c = RED    -> PATH_RED
       [] c = YELLOW -> PATH_YELLOW]

BASE_POSITIONS ==
  [c \in PlayerColor |->
     CASE c = BLUE   -> << <<"B","1">>, <<"B","2">>, <<"B","3">>, <<"B","4">> >>
       [] c = GREEN  -> << <<"G","1">>, <<"G","2">>, <<"G","3">>, <<"G","4">> >>
       [] c = RED    -> << <<"R","1">>, <<"R","2">>, <<"R","3">>, <<"R","4">> >>
       [] c = YELLOW -> << <<"Y","1">>, <<"Y","2">>, <<"Y","3">>, <<"Y","4">> >>]

START_POSITIONS ==
  [c \in PlayerColor |->
     CASE c = BLUE   -> <<"B","0","4">>
       [] c = GREEN  -> <<"G","2","1">>
       [] c = RED    -> <<"R","1","0">>
       [] c = YELLOW -> <<"Y","4","2">>]

HOME_POSITIONS ==
  [c \in PlayerColor |->
     CASE c = BLUE   -> <<"B","F">>
       [] c = GREEN  -> <<"G","F">>
       [] c = RED    -> <<"R","F">>
       [] c = YELLOW -> <<"Y","F">>]

SAFE_SPOTS ==
  << <<"B","0","4">>, <<"B","2","3">>, <<"R","2","2">>, <<"R","1","0">>,
     <<"G","0","2">>, <<"G","2","1">>, <<"Y","3","0">>, <<"Y","4","2">> >>

----------------------------------------------------------------------------
(* String and array primitives used by the rules *)

\* Array.prototype.indexOf: first 0-based index of x in arr, or -1
indexOf(arr, x) ==
  IF \E i \in 1..Len(arr) : arr[i] = x
  THEN (CHOOSE i \in 1..Len(arr) : arr[i] = x /\ \A j \in 1..(i - 1) : arr[j] # x) - 1
  ELSE -1

\* Array.prototype.includes
includes(arr, x) == \E i \in 1..Len(arr) : arr[i] = x

\* String.prototype.endsWith for a one-character suffix
endsWith(s, ch) == Len(s) >= 1 /\ s[Len(s)] = ch

\* String.prototype.toUpperCase on the initials that occur
toUpperCase(ch) ==
  CASE ch = "r" -> "R"
    [] ch = "b" -> "B"
    [] ch = "g" -> "G"
    [] ch = "y" -> "Y"
    [] OTHER    -> ch

\* parseInt of a single character (NaN is modelled as 0, which indexes nothing)
parseInt(ch) ==
  CASE ch = "1" -> 1
    [] ch = "2" -> 2
    [] ch = "3" -> 3
    [] ch = "4" -> 4
    [] ch = "5" -> 5
    [] ch = "6" -> 6
    [] ch = "7" -> 7
    [] ch = "8" -> 8
    [] ch = "9" -> 9
    [] OTHER    -> 0

----------------------------------------------------------------------------
(* utils/gameRules.ts: rules *)

\* Variant: every two-character cell counts as a base slot
isTokenInBase_lengthOnly(positionId) == Len(positionId) = 2

isTokenInBase(positionId) == Len(positionId) = 2 /\ ~endsWith(positionId, "F")

getTokenPath(color) == TOKEN_PATHS[color]

\* Result of canMoveToken: {valid, targetPosition?, reason?}; an absent
\* targetPosition is the empty id, an absent reason the empty string.
canMoveToken(tokenPosition, diceValue, color) ==
  IF isTokenInBase(tokenPosition)
  THEN IF diceValue = 6
       THEN [valid |-> TRUE, targetPosition |-> START_POSITIONS[color], reason |-> ""]
       ELSE [valid |-> FALSE, targetPosition |-> <<>>, reason |-> "Need a 6 to move out of base"]
  ELSE LET path         == getTokenPath(color)
           currentIndex == indexOf(path, tokenPosition)
           targetIndex  == currentIndex + diceValue
       IN  IF currentIndex = -1
           THEN [valid |-> FALSE, targetPosition |-> <<>>, reason |-> "Invalid token position"]
           ELSE IF targetIndex >= Len(path)
                THEN [valid |-> FALSE, targetPosition |-> <<>>, reason |-> "Move exceeds path length"]
                ELSE [valid |-> TRUE, targetPosition |-> path[targetIndex + 1], reason |-> ""]

\* Variant: no cell protects
isSafeSpot_never(positionId) == FALSE

isSafeSpot(positionId) == includes(SAFE_SPOTS, positionId)

\* Object.entries(tokenPositions) lists the colours in insertion order, which
\* is the order initializeGame takes from the players: RED, BLUE, GREEN, YELLOW.
COLOR_ORDER == <<RED, BLUE, GREEN, YELLOW>>

entries(allTokenPositions) ==
  LET present(c) == c \in DOMAIN allTokenPositions
  IN  SelectSeq(COLOR_ORDER, present)

RECURSIVE concatAll(_)
concatAll(seqs) == IF seqs = <<>> THEN <<>> ELSE Head(seqs) \o concatAll(Tail(seqs))

detectCollision(targetPosition, attackerColor, allTokenPositions) ==
  IF isSafeSpot(targetPosition)
  THEN [captured |-> FALSE, capturedTokens |-> <<>>]
  ELSE LET colors == entries(allTokenPositions)
           onTarget(token) == token.positionId = targetPosition
           perColor == [i \in 1..Len(colors) |->
                          IF colors[i] = attackerColor THEN <<>>
                          ELSE SelectSeq(allTokenPositions[colors[i]], onTarget)]
           capturedTokens == concatAll(perColor)
       IN  [captured |-> Len(capturedTokens) > 0, capturedTokens |-> capturedTokens]

checkWinCondition(color, tokenPositions) ==
  LET homePosition == HOME_POSITIONS[color]
      atHome(token) == token.positionId = homePosition
      tokensInHome == SelectSeq(tokenPositions, atHome)
  IN  Len(tokensInHome) = 4

getBasePosition(tokenId, color) ==
  LET basePositions == BASE_POSITIONS[color]
      tokenNumber   == parseInt(tokenId[Len(tokenId)])
  IN  basePositions[tokenNumber]

isValidTokenId(tokenId, color) ==
  LET colorPrefix == toUpperCase(color[1])
  IN  /\ Len(tokenId) >= 2 /\ tokenId[1] = colorPrefix /\ tokenId[2] = "T"
      /\ Len(tokenId) = 3

----------------------------------------------------------------------------
(* services/GameService.ts: GameService *)

\* Number.prototype.toString for a token ordinal
toString(n) ==
  CASE n = 1 -> "1"
    [] n = 2 -> "2"
    [] n = 3 -> "3"
    [] n = 4 -> "4"
    [] OTHER -> "?"

\* redisClient.get + JSON.parse: a one-element sequence, or <<>> for null
getGameState(store, roomCode) ==
  IF roomCode \in DOMAIN store THEN <<store[roomCode]>> ELSE <<>>

\* redisClient.set under the key of gameState.roomCode
saveGameState(store, gameState) ==
  [r \in DOMAIN store \cup {gameState.roomCode} |->
     IF r = gameState.roomCode THEN gameState ELSE store[r]]

initializeGame(store, roomCode, players) ==
  LET colors == {players[i].color : i \in 1..Len(players)}
      tokenPositions ==
        [c \in colors |->
           [index \in 1..Len(BASE_POSITIONS[c]) |->
              [tokenId    |-> <<toUpperCase(c[1]), "T", toString(index)>>,
               positionId |-> BASE_POSITIONS[c][index]]]]
      gameState ==
        [roomCode           |-> roomCode,
         players            |-> players,
         currentPlayerIndex |-> 0,
         diceValue          |-> null,
         tokenPositions     |-> tokenPositions,
         phase              |-> ROLLING,
         rankings           |-> <<>>,
         consecutiveSixes   |-> 0]
  IN  saveGameState(store, gameState)

\* The do-while loop of switchTurn, entered with nextPlayerIndex
\* Variant: the turn goes to the next seat, finished or not
nextPlayerLoop_nextSeat(gameState, nextPlayerIndex) ==
  (nextPlayerIndex + 1) % Len(gameState.players)

RECURSIVE nextPlayerLoop(_, _)
nextPlayerLoop(gameState, nextPlayerIndex) ==
  LET n == (nextPlayerIndex + 1) % Len(gameState.players)
  IN  IF gameState.players[n + 1].rank > 0 /\ n # gameState.currentPlayerIndex
      THEN nextPlayerLoop(gameState, n)
      ELSE n

switchTurn(store, roomCode) ==
  LET found == getGameState(store, roomCode)
  IN  IF found = <<>> THEN store
      ELSE LET gameState == found[1]
               nextPlayerIndex == nextPlayerLoop(gameState, gameState.currentPlayerIndex)
           IN  saveGameState(store,
                 [gameState EXCEPT !.currentPlayerIndex = nextPlayerIndex,
                                   !.diceValue = null,
                                   !.phase = ROLLING,
                                   !.consecutiveSixes = 0])

checkValidMoves(gameState, color, diceValue) ==
  LET playerTokens == gameState.tokenPositions[color]
  IN  \E i \in 1..Len(playerTokens) :
        canMoveToken(playerTokens[i].positionId, diceValue, color).valid

\* Variant: the turn check compares nothing
notYourTurn_unchecked(currentPlayer, playerId) == FALSE

\* "Validate it's the player's turn" of rollDice and moveToken
notYourTurn(currentPlayer, playerId) == currentPlayer.playerId # playerId

\* Variant: the counter restarts at every six
trackSixes_restarting(consecutiveSixes, diceValue) ==
  IF diceValue = 6 THEN 1 ELSE 0

\* "Track consecutive sixes"
trackSixes(consecutiveSixes, diceValue) ==
  IF diceValue = 6 THEN consecutiveSixes + 1 ELSE 0

\* A rejected call that clears the stored dice on its way out
rollFailure_clearsDice(store, error) ==
  [success |-> FALSE, error |-> error, diceValue |-> null, skipTurn |-> FALSE,
   store |-> [r \in DOMAIN store |-> [store[r] EXCEPT !.diceValue = null]]]

\* A rejected call: nothing is written
rollFailure(store, error) ==
  [success |-> FALSE, error |-> error, diceValue |-> null, skipTurn |-> FALSE,
   store |-> store]

\* rollDice; random is the value of Math.floor(Math.random() * 6) + 1
rollDice(store, roomCode, playerId, random) ==
  LET found == getGameState(store, roomCode)
  IN  IF found = <<>> THEN rollFailure(store, "Game not found")
      ELSE
      LET gameState     == found[1]
          currentPlayer == gameState.players[gameState.currentPlayerIndex + 1]
          diceValue     == random
          sixes         == trackSixes(gameState.consecutiveSixes, diceValue)
      IN  IF notYourTurn(currentPlayer, playerId) THEN rollFailure(store, "Not your turn")
          ELSE IF gameState.phase # ROLLING
               THEN rollFailure(store, "Cannot roll dice in current phase")
          ELSE IF sixes = 3
               THEN \* the in-memory reset is not saved; switchTurn reloads and saves
                    [success |-> TRUE, error |-> "", diceValue |-> diceValue,
                     skipTurn |-> TRUE, store |-> switchTurn(store, roomCode)]
          ELSE IF ~checkValidMoves(gameState, currentPlayer.color, diceValue)
               THEN [success |-> TRUE, error |-> "", diceValue |-> diceValue,
                     skipTurn |-> TRUE, store |-> switchTurn(store, roomCode)]
          ELSE [success |-> TRUE, error |-> "", diceValue |-> diceValue,
                skipTurn |-> FALSE,
                store |-> saveGameState(store,
                            [gameState EXCEPT !.consecutiveSixes = sixes,
                                              !.diceValue = diceValue,
                                              !.phase = MOVING])]

\* tokens.findIndex((t) => t.tokenId === tokenId), 0-based, -1 when absent
findIndex(tokens, tokenId) ==
  IF \E i \in 1..Len(tokens) : tokens[i].tokenId = tokenId
  THEN (CHOOSE i \in 1..Len(tokens) :
          tokens[i].tokenId = tokenId /\ \A j \in 1..(i - 1) : tokens[j].tokenId # tokenId) - 1
  ELSE -1

\* Variant: a captured token is taken out of its owner's list
RECURSIVE returnToBase_removing(_, _, _)
returnToBase_removing(tokenPositions, colors, capturedToken) ==
  IF colors = <<>> THEN tokenPositions
  ELSE LET color == Head(colors)
           other(t) == t.tokenId # capturedToken.tokenId
       IN  IF \E i \in 1..Len(tokenPositions[color]) :
                 tokenPositions[color][i].tokenId = capturedToken.tokenId
           THEN [tokenPositions EXCEPT ![color] = SelectSeq(tokenPositions[color], other)]
           ELSE returnToBase_removing(tokenPositions, Tail(colors), capturedToken)

\* The inner loop over Object.entries(tokenPositions): the first colour whose
\* list holds the captured token gets that token sent to its base slot.
RECURSIVE returnToBase(_, _, _)
returnToBase(tokenPositions, colors, capturedToken) ==
  IF colors = <<>> THEN tokenPositions
  ELSE LET color      == Head(colors)
           tokenIndex == findIndex(tokenPositions[color], capturedToken.tokenId)
       IN  IF tokenIndex # -1
           THEN [tokenPositions EXCEPT
                   ![color][tokenIndex + 1].positionId =
                      getBasePosition(capturedToken.tokenId, color)]
           ELSE returnToBase(tokenPositions, Tail(colors), capturedToken)

\* Variant: only the first captured token is sent back
handleCaptured_firstOnly(tokenPositions, capturedTokens) ==
  IF capturedTokens = <<>> THEN tokenPositions
  ELSE returnToBase(tokenPositions, entries(tokenPositions), Head(capturedTokens))

\* The outer loop over collision.capturedTokens
RECURSIVE handleCaptured(_, _)
handleCaptured(tokenPositions, capturedTokens) ==
  IF capturedTokens = <<>> THEN tokenPositions
  ELSE handleCaptured(
         returnToBase(tokenPositions, entries(tokenPositions), Head(capturedTokens)),
         Tail(capturedTokens))

\* Lines 288-319: ranking of the mover, and of the last player when all
\* others have finished
recordWin(gameState) ==
  LET index    == gameState.currentPlayerIndex + 1
      rank     == Len(gameState.rankings) + 1
      rankings == Append(gameState.rankings,
                         [playerId |-> gameState.players[index].playerId, rank |-> rank])
      players  == [gameState.players EXCEPT ![index].rank = rank]
      ranked(p) == \E k \in 1..Len(rankings) : rankings[k].playerId = p.playerId
      unranked == {i \in 1..Len(players) : ~ranked(players[i])}
  IN  IF Len(rankings) = Len(players) - 1
      THEN IF unranked # {}
           THEN LET last == CHOOSE i \in unranked : \A j \in unranked : i <= j
                IN  [gameState EXCEPT
                       !.rankings = Append(rankings,
                                      [playerId |-> players[last].playerId,
                                       rank |-> Len(players)]),
                       !.players = [players EXCEPT ![last].rank = Len(players)],
                       !.phase = FINISHED]
           ELSE [gameState EXCEPT !.rankings = rankings, !.players = players,
                                  !.phase = FINISHED]
      ELSE [gameState EXCEPT !.rankings = rankings, !.players = players]

NoToken == <<>>

\* Variant: the caller's target is trusted
targetMismatch_trusting(moveValidation, targetPositionId) == FALSE

\* "Validate target position matches calculated position"
targetMismatch(moveValidation, targetPositionId) ==
  moveValidation.targetPosition # targetPositionId

\* Variant: only a capture earns the extra turn
grantsExtraTurn_captureOnly(diceValue, captured) == captured

\* Variant: only a six earns the extra turn
grantsExtraTurn_sixOnly(diceValue, captured) == diceValue = 6

\* "Determine if player gets extra turn"
grantsExtraTurn(diceValue, captured) == diceValue = 6 \/ captured

moveFailure(store, error) ==
  [success |-> FALSE, error |-> error, fromPosition |-> <<>>, toPosition |-> <<>>,
   capturedTokenId |-> NoToken, extraTurn |-> FALSE, store |-> store]

moveToken(store, roomCode, playerId, tokenId, targetPositionId) ==
  LET found == getGameState(store, roomCode)
  IN  IF found = <<>> THEN moveFailure(store, "Game not found")
      ELSE
      LET gameState     == found[1]
          index         == gameState.currentPlayerIndex + 1
          currentPlayer == gameState.players[index]
          playerTokens  == gameState.tokenPositions[currentPlayer.color]
          tokenIndex    == findIndex(playerTokens, tokenId)
      IN  IF notYourTurn(currentPlayer, playerId) THEN moveFailure(store, "Not your turn")
          ELSE IF gameState.phase # MOVING
               THEN moveFailure(store, "Cannot move token in current phase")
          ELSE IF gameState.diceValue = null THEN moveFailure(store, "Dice not rolled")
          ELSE IF ~isValidTokenId(tokenId, currentPlayer.color)
               THEN moveFailure(store, "Invalid token")
          ELSE IF tokenIndex = -1 THEN moveFailure(store, "Token not found")
          ELSE
          LET token          == playerTokens[tokenIndex + 1]
              moveValidation == canMoveToken(token.positionId, gameState.diceValue,
                                             currentPlayer.color)
          IN  IF ~moveValidation.valid THEN moveFailure(store, moveValidation.reason)
              ELSE IF targetMismatch(moveValidation, targetPositionId)
                   THEN moveFailure(store, "Invalid target position")
              ELSE
              LET fromPosition == token.positionId
                  moved     == [gameState.tokenPositions EXCEPT
                                  ![currentPlayer.color][tokenIndex + 1].positionId =
                                     targetPositionId]
                  collision == detectCollision(targetPositionId, currentPlayer.color, moved)
                  afterCapture == IF collision.captured
                                  THEN handleCaptured(moved, collision.capturedTokens)
                                  ELSE moved
                  capturedTokenId ==
                    IF collision.captured
                    THEN collision.capturedTokens[Len(collision.capturedTokens)].tokenId
                    ELSE NoToken
                  placed    == [gameState EXCEPT !.tokenPositions = afterCapture]
                  hasWon    == checkWinCondition(currentPlayer.color,
                                                 afterCapture[currentPlayer.color])
                  ranked    == IF hasWon THEN recordWin(placed) ELSE placed
                  extraTurn == grantsExtraTurn(gameState.diceValue, collision.captured)
                  \* both branches of the extra-turn test assign the same two fields
                  final     == [ranked EXCEPT !.phase = ROLLING, !.diceValue = null]
              IN  [success |-> TRUE, error |-> "", fromPosition |-> fromPosition,
                   toPosition |-> targetPositionId, capturedTokenId |-> capturedTokenId,
                   extraTurn |-> extraTurn, store |-> saveGameState(store, final)]

----------------------------------------------------------------------------
(* services/GameService.ts: ReconnectionService *)

\* models/Player.ts PlayerSession, without playerName and lastActivity
PlayerSession(playerId, roomCode, socketId) ==
  [playerId |-> playerId, roomCode |-> roomCode, socketId |-> socketId]

\* socket.id of the connection over which a client sent its first intents,
\* and of the connection it opens to come back
FIRST_SOCKET == "socket1"
NEXT_SOCKET  == "socket2"

\* redisClient.setJson / delete on RedisKeys.playerSession(playerId)
storePlayerSession(sessions, socketId, playerId, roomCode) ==
  [p \in DOMAIN sessions \cup {playerId} |->
     IF p = playerId THEN PlayerSession(playerId, roomCode, socketId) ELSE sessions[p]]

deletePlayerSession(sessions, playerId) ==
  [p \in DOMAIN sessions \ {playerId} |-> sessions[p]]

\* null is the empty sequence, a session found is a sequence of one session
getPlayerSession(sessions, playerId) ==
  IF playerId \in DOMAIN sessions THEN <<sessions[playerId]>> ELSE <<>>

\* gameState.players.findIndex(p => p.playerId === playerId), 0-based
findPlayer(gameState, playerId) ==
  LET at == {i \in 1..Len(gameState.players) :
               gameState.players[i].playerId = playerId}
  IN  IF at = {} THEN -1 ELSE (CHOOSE i \in at : \A j \in at : i <= j) - 1

updatePlayerConnectionStatus(store, roomCode, playerId, status) ==
  LET found == getGameState(store, roomCode)
  IN  IF found = <<>> THEN store
      ELSE LET gameState == found[1]
               matches == {i \in 1..Len(gameState.players) :
                             gameState.players[i].playerId = playerId}
           IN  IF matches # {}
               THEN LET playerIndex == CHOOSE i \in matches : \A j \in matches : i <= j
                    IN  saveGameState(store,
                          [gameState EXCEPT !.players[playerIndex].connectionStatus = status])
               ELSE store

\* A handler invocation or timer: what it is for, where it stands (the await
\* it is at), the game state and session it has read (null is the empty
\* sequence), its argument (dice value, socket id, number of the timer), the
\* rooms it has read, and history: the game state that was stored when it
\* was created
Task(op, playerId, roomCode, pc) ==
  [op |-> op, playerId |-> playerId, roomCode |-> roomCode, pc |-> pc,
   gameState |-> <<>>, session |-> <<>>, arg |-> 0, origin |-> <<>>,
   rooms |-> <<>>, tokenId |-> NoToken, targetPositionId |-> <<>>]

\* setTimeout: the timer waits in the event loop; clearTimeout: a timer that
\* waits is dropped, one whose callback has started is not stopped
setTimeout(pending, timer, playerId, roomCode) ==
  [t \in DOMAIN pending \cup {timer} |->
     IF t = timer THEN Task("grace_timer", playerId, roomCode, "scheduled")
     ELSE pending[t]]

clearTimeout(pending, timer) ==
  [t \in {t \in DOMAIN pending : ~(t = timer /\ pending[t].pc = "scheduled")} |->
     pending[t]]

\* Variant: the timer that the player already has keeps running
clearExistingTimer_never(pending, timers, playerId) == pending

\* Lines 475-479: clear any existing timer for this player
clearExistingTimer(pending, timers, playerId) ==
  IF playerId \in DOMAIN timers THEN clearTimeout(pending, timers[playerId])
  ELSE pending

\* Lines 482-487, after the status update: the player's timer is replaced by
\* the new one
startGraceTimer(timers, pending, playerId, roomCode, timer) ==
  [pending |-> setTimeout(clearExistingTimer(pending, timers, playerId),
                          timer, playerId, roomCode),
   timers  |-> [p \in DOMAIN timers \cup {playerId} |->
                  IF p = playerId THEN timer ELSE timers[p]]]

\* handleDisconnection: status update, then the timer
handleDisconnection(store, timers, pending, playerId, roomCode, timer) ==
  LET started == startGraceTimer(timers, pending, playerId, roomCode, timer)
  IN  [store   |-> updatePlayerConnectionStatus(store, roomCode, playerId, DISCONNECTED),
       pending |-> started.pending,
       timers  |-> started.timers]

\* Lines 504-512: the game state without the player, and whether it is saved
removePlayer(gameState, playerId) ==
  LET stays(p) == p.playerId # playerId
      players  == SelectSeq(gameState.players, stays)
  IN  [saved |-> Len(players) > 0,
       gameState |-> [gameState EXCEPT
                        !.players = players,
                        !.currentPlayerIndex =
                           IF Len(players) > 0
                              /\ gameState.currentPlayerIndex >= Len(players)
                           THEN 0 ELSE gameState.currentPlayerIndex]]

\* handlePermanentDisconnection: the game store and the session store it
\* leaves, and whether permanentDisconnectCallback was called
handlePermanentDisconnection(store, sessions, playerId, roomCode) ==
  LET found == getGameState(store, roomCode)
  IN  IF found = <<>>
      THEN [store |-> store, sessions |-> sessions, notified |-> FALSE]
      ELSE LET removed == removePlayer(found[1], playerId)
           IN  [store    |-> IF removed.saved
                             THEN saveGameState(store, removed.gameState)
                             ELSE store,
                sessions |-> deletePlayerSession(sessions, playerId),
                notified |-> TRUE]

\* cancelDisconnectionTimer on the ReconnectionService whose timers these are
cancelDisconnectionTimer(timers, pending, playerId) ==
  IF playerId \in DOMAIN timers
  THEN [pending |-> clearTimeout(pending, timers[playerId]),
        timers  |-> [p \in DOMAIN timers \ {playerId} |-> timers[p]]]
  ELSE [pending |-> pending, timers |-> timers]

hasActiveSession(sessions, playerId, roomCode) ==
  LET session == getPlayerSession(sessions, playerId)
  IN  session # <<>> /\ session[1].roomCode = roomCode

updateSocketId(sessions, playerId, newSocketId) ==
  LET session == getPlayerSession(sessions, playerId)
  IN  IF session # <<>>
      THEN storePlayerSession(sessions, newSocketId, playerId, session[1].roomCode)
      ELSE sessions

----------------------------------------------------------------------------
(* models/Room.ts and services/RoomService.ts. A Room is stored without    *)
(* its optional spectators array, which is kept in roomSpectators: a room  *)
(* code outside DOMAIN roomSpectators is a room without that array.        *)

\* RoomStatus; WAITING and FINISHED have the values of the GamePhase members
PLAYING == "playing"

\* utils/validation.ts: /^[A-Z0-9]{6,8}$/ on the room codes that clients send
isValidRoomCode(roomCode) == roomCode \in {"ROOM01", "ROOM02"}

isValidPlayerId(playerId) == playerId # ""

noRoom == [roomCode |-> "", hostId |-> "", players |-> <<>>,
           status |-> "", maxPlayers |-> 0, createdAt |-> 0]

\* What a RoomService method leaves behind: the two stores, the room it
\* returns (noRoom for null) and the message of the Error it throws
roomResult(store, spectatorsOf, room, error) ==
  [store |-> store, spectatorsOf |-> spectatorsOf, room |-> room, error |-> error]

\* redisClient.setJson(RedisKeys.room(roomCode), room, ttl)
setRoom(store, room) ==
  [r \in DOMAIN store \cup {room.roomCode} |->
     IF r = room.roomCode THEN room ELSE store[r]]

\* redisClient.delete(RedisKeys.room(roomCode))
deleteRoom(store, roomCode) == [r \in DOMAIN store \ {roomCode} |-> store[r]]

\* roomCode is the code that generateUniqueRoomCode returns
createRoom(store, spectatorsOf, hostId, maxPlayers, roomCode) ==
  IF ~isValidPlayerId(hostId)
  THEN roomResult(store, spectatorsOf, noRoom, "Invalid host ID")
  ELSE IF maxPlayers < 2 \/ maxPlayers > 4
  THEN roomResult(store, spectatorsOf, noRoom, "Max players must be between 2 and 4")
  ELSE LET room == [roomCode   |-> roomCode,
                    hostId     |-> hostId,
                    players    |-> <<hostId>>,
                    status     |-> WAITING,
                    maxPlayers |-> maxPlayers,
                    createdAt  |-> clock]   \* new Date()
       IN  roomResult(setRoom(store, room), spectatorsOf, room, "")

roomIsFull(room) == Len(room.players) >= room.maxPlayers

\* Variant: a started game does not close the room
gameAlreadyStarted_never(room) == FALSE

gameAlreadyStarted(room) == room.status # WAITING

joinRoom(store, spectatorsOf, roomCode, playerId) ==
  IF ~isValidRoomCode(roomCode)
  THEN roomResult(store, spectatorsOf, noRoom, "Invalid room code format")
  ELSE IF ~isValidPlayerId(playerId)
  THEN roomResult(store, spectatorsOf, noRoom, "Invalid player ID")
  ELSE IF roomCode \notin DOMAIN store
  THEN roomResult(store, spectatorsOf, noRoom, "Room not found")
  ELSE LET room == store[roomCode]
       IN  IF roomIsFull(room)
           THEN roomResult(store, spectatorsOf, noRoom, "Room is full")
           ELSE IF includes(room.players, playerId)
           THEN roomResult(store, spectatorsOf, room, "")
           ELSE IF gameAlreadyStarted(room)
           THEN roomResult(store, spectatorsOf, noRoom, "Game already started")
           ELSE LET joined == [room EXCEPT !.players = Append(@, playerId)]
                IN  roomResult(setRoom(store, joined), spectatorsOf, joined, "")

\* Variant: the host id stays when the host leaves
promoteHost_never(room, playerId) == room

\* Lines 153-157: the first remaining player becomes host when the host left
promoteHost(room, playerId) ==
  IF room.hostId = playerId THEN [room EXCEPT !.hostId = room.players[1]] ELSE room

leaveRoom(store, spectatorsOf, roomCode, playerId) ==
  IF ~isValidRoomCode(roomCode)
  THEN roomResult(store, spectatorsOf, noRoom, "Invalid room code format")
  ELSE IF ~isValidPlayerId(playerId)
  THEN roomResult(store, spectatorsOf, noRoom, "Invalid player ID")
  ELSE IF roomCode \notin DOMAIN store
  THEN roomResult(store, spectatorsOf, noRoom, "Room not found")
  ELSE LET room == store[roomCode]
           other(id) == id # playerId
           remaining == [room EXCEPT !.players = SelectSeq(room.players, other)]
       IN  IF ~includes(room.players, playerId)
           THEN roomResult(store, spectatorsOf, room, "")
           ELSE IF Len(remaining.players) = 0
           THEN roomResult(deleteRoom(store, roomCode),
                           [r \in DOMAIN spectatorsOf \ {roomCode} |-> spectatorsOf[r]],
                           noRoom, "")
           ELSE LET promoted == promoteHost(remaining, playerId)
                IN  roomResult(setRoom(store, promoted), spectatorsOf, promoted, "")

\* null is the empty sequence, a room found is a sequence of one room
getRoomData(store, roomCode) ==
  IF roomCode \in DOMAIN store THEN <<store[roomCode]>> ELSE <<>>

updateRoomStatus(store, roomCode, status) ==
  IF roomCode \notin DOMAIN store THEN store
  ELSE setRoom(store, [store[roomCode] EXCEPT !.status = status])

addSpectator(store, spectatorsOf, roomCode, playerId) ==
  IF ~isValidRoomCode(roomCode)
  THEN roomResult(store, spectatorsOf, noRoom, "Invalid room code format")
  ELSE IF ~isValidPlayerId(playerId)
  THEN roomResult(store, spectatorsOf, noRoom, "Invalid player ID")
  ELSE IF roomCode \notin DOMAIN store
  THEN roomResult(store, spectatorsOf, noRoom, "Room not found")
  ELSE LET room == store[roomCode]
           spectators == IF roomCode \in DOMAIN spectatorsOf
                         THEN spectatorsOf[roomCode] ELSE <<>>
       IN  IF includes(spectators, playerId)
           THEN roomResult(store, spectatorsOf, room, "")
           ELSE IF includes(room.players, playerId)
           THEN roomResult(store, spectatorsOf, noRoom, "Player is already in the game")
           ELSE roomResult(store,
                           [r \in DOMAIN spectatorsOf \cup {roomCode} |->
                              IF r = roomCode THEN Append(spectators, playerId)
                              ELSE spectatorsOf[r]],
                           room, "")

removeSpectator(store, spectatorsOf, roomCode, playerId) ==
  IF ~isValidRoomCode(roomCode)
  THEN roomResult(store, spectatorsOf, noRoom, "Invalid room code format")
  ELSE IF ~isValidPlayerId(playerId)
  THEN roomResult(store, spectatorsOf, noRoom, "Invalid player ID")
  ELSE IF roomCode \notin DOMAIN store
  THEN roomResult(store, spectatorsOf, noRoom, "Room not found")
  ELSE LET room == store[roomCode]
           other(id) == id # playerId
       IN  IF roomCode \notin DOMAIN spectatorsOf
           THEN roomResult(store, spectatorsOf, room, "")
           ELSE IF ~includes(spectatorsOf[roomCode], playerId)
           THEN roomResult(store, spectatorsOf, room, "")
           ELSE roomResult(store,
                           [spectatorsOf EXCEPT ![roomCode] = SelectSeq(@, other)],
                           room, "")

\* Variant: every member gets the first colour
assignColor_first(index) == RED

\* availableColors[index % availableColors.length]
assignColor(index) == COLOR_ORDER[(index % Len(COLOR_ORDER)) + 1]

enrichRoomWithPlayers(room) ==
  [index \in 1..Len(room.players) |->
     [playerId |-> room.players[index], color |-> assignColor(index - 1),
      connectionStatus |-> CONNECTED, rank |-> 0]]

----------------------------------------------------------------------------
(* services/MatchmakingService.ts. ZRANGE reads the sorted set in ascending *)
(* score, members of equal score in lexicographic order. A QueuedPlayer    *)
(* found is a sequence of one record, null is the empty sequence. The      *)
(* entries do not outlive their time to live in the runs explored.         *)

\* The player ids that clients send, listed in lexicographic order
QueueIds == <<"A", "B", "C", "D">>

lexLess(a, b) == indexOf(QueueIds, a) < indexOf(QueueIds, b)

\* redisClient.zAdd / zRem / zCard / zRange(key, 0, -1)
zAdd(zset, score, member) ==
  [m \in DOMAIN zset \cup {member} |-> IF m = member THEN score ELSE zset[m]]

zRem(zset, member) == [m \in DOMAIN zset \ {member} |-> zset[m]]

zCard(zset) == Cardinality(DOMAIN zset)

RECURSIVE zRange(_)
zRange(zset) ==
  IF DOMAIN zset = {} THEN <<>>
  ELSE LET first == CHOOSE m \in DOMAIN zset : \A o \in DOMAIN zset \ {m} :
                      \/ zset[m] < zset[o]
                      \/ zset[m] = zset[o] /\ lexLess(m, o)
       IN  <<first>> \o zRange(zRem(zset, first))

queueResult(queue, player, error) ==
  [queue |-> queue, player |-> player, error |-> error]

\* Variant: a second join of a queued player overwrites the entry
alreadyQueued_never(player, playerId) == FALSE

\* Lines 39-43: the player's entry is found in the store
alreadyQueued(player, playerId) == playerId \in DOMAIN player

\* timestamp is the value of Date.now() at line 45
addToQueue(queue, player, playerId, playerName, preferredPlayers, timestamp) ==
  IF playerId = "" \/ playerName = ""
  THEN queueResult(queue, player, "Player ID and name are required")
  ELSE IF preferredPlayers \notin {2, 3, 4}
  THEN queueResult(queue, player, "Preferred players must be 2, 3, or 4")
  ELSE IF alreadyQueued(player, playerId)
  THEN queueResult(queue, player, "")
  ELSE LET queuedPlayer == [playerId |-> playerId, playerName |-> playerName,
                            preferredPlayers |-> preferredPlayers,
                            timestamp |-> timestamp]
       IN  queueResult(zAdd(queue, timestamp, playerId),
                       [p \in DOMAIN player \cup {playerId} |->
                          IF p = playerId THEN queuedPlayer ELSE player[p]],
                       "")

removeFromQueue(queue, player, playerId) ==
  IF playerId = ""
  THEN queueResult(queue, player, "Player ID is required")
  ELSE queueResult(zRem(queue, playerId),
                   [p \in DOMAIN player \ {playerId} |-> player[p]], "")

\* getQueuedPlayers: the entries in queue order; a member whose entry is
\* gone is removed from the sorted set
getQueuedPlayers(queue, player) ==
  LET playerIds == zRange(queue)
      stored(playerId) == playerId \in DOMAIN player
      found == SelectSeq(playerIds, stored)
  IN  [players |-> [i \in 1..Len(found) |-> player[found[i]]],
       queue   |-> [m \in {m \in DOMAIN queue : stored(m)} |-> queue[m]]]

\* Variant: the filter lets every queued player through
isEligible_any(p, size) == TRUE

\* Line 151: the filter of findMatchBySize
isEligible(p, size) == p.preferredPlayers >= size \/ p.preferredPlayers = size

\* null is the empty sequence
findMatchBySize(players, size) ==
  IF Len(players) < size THEN <<>>
  ELSE LET eligible(p) == isEligible(p, size)
           eligiblePlayers == SelectSeq(players, eligible)
       IN  IF Len(eligiblePlayers) >= size
           THEN SubSeq(eligiblePlayers, 1, size)
           ELSE <<>>

\* findMatch: the group found (null is the empty sequence) and the sorted
\* set as getQueuedPlayers leaves it
findMatch(queue, player) ==
  LET read == getQueuedPlayers(queue, player)
      queuedPlayers == read.players
      fourPlayerMatch  == findMatchBySize(queuedPlayers, 4)
      threePlayerMatch == findMatchBySize(queuedPlayers, 3)
      twoPlayerMatch   == findMatchBySize(queuedPlayers, 2)
  IN  [queue |-> read.queue,
       match |-> IF Len(queuedPlayers) < 2 THEN <<>>
                 ELSE IF fourPlayerMatch # <<>> THEN fourPlayerMatch
                 ELSE IF threePlayerMatch # <<>> THEN threePlayerMatch
                 ELSE twoPlayerMatch]

\* The joinRoom calls of createMatchedRoom for players[i..]; a call that
\* throws is logged and the loop goes on
RECURSIVE joinMatched(_, _, _, _, _)
joinMatched(store, spectatorsOf, roomCode, players, i) ==
  IF i > Len(players) THEN store
  ELSE joinMatched(joinRoom(store, spectatorsOf, roomCode, players[i].playerId).store,
                   spectatorsOf, roomCode, players, i + 1)

\* The removeFromQueue calls of createMatchedRoom for players[i..]
RECURSIVE dequeueMatched(_, _, _, _)
dequeueMatched(queue, player, players, i) ==
  IF i > Len(players) THEN queueResult(queue, player, "")
  ELSE LET removed == removeFromQueue(queue, player, players[i].playerId)
       IN  IF removed.error # "" THEN removed
           ELSE dequeueMatched(removed.queue, removed.player, players, i + 1)

\* createMatchedRoom; roomCode is the code that generateUniqueRoomCode returns
createMatchedRoom(store, spectatorsOf, queue, player, players, roomCode) ==
  IF Len(players) < 2 \/ Len(players) > 4
  THEN [store |-> store, queue |-> queue, player |-> player, roomCode |-> "",
        error |-> "Invalid number of players for match"]
  ELSE LET host    == players[1]
           created == createRoom(store, spectatorsOf, host.playerId, Len(players), roomCode)
       IN  IF created.error # ""
           THEN [store |-> store, queue |-> queue, player |-> player, roomCode |-> "",
                 error |-> created.error]
           ELSE LET joined  == joinMatched(created.store, spectatorsOf,
                                           created.room.roomCode, players, 2)
                    removed == dequeueMatched(queue, player, players, 1)
                IN  [store |-> joined, queue |-> removed.queue, player |-> removed.player,
                     roomCode |-> IF removed.error = "" THEN created.room.roomCode ELSE "",
                     error |-> removed.error]

----------------------------------------------------------------------------
(* handlers/gameHandlers.ts *)

isSpectator(spectatorsOf, roomCode, playerId) ==
  IF roomCode \notin DOMAIN spectatorsOf THEN FALSE
  ELSE includes(spectatorsOf[roomCode], playerId)

\* What the participants of the room observe of one processed event
Event(op, roomCode, playerId) ==
  [op |-> op, roomCode |-> roomCode, playerId |-> playerId,
   tokenId |-> NoToken, targetPositionId |-> <<>>,
   success |-> FALSE, error |-> "", diceValue |-> null, skipTurn |-> FALSE,
   fromPosition |-> <<>>, capturedTokenId |-> NoToken, extraTurn |-> FALSE,
   sixesInRow |-> 0, players |-> <<>>]

NoRoll == [playerId |-> "", diceValue |-> null]
NoSixes == [playerId |-> "", count |-> 0]

\* roll_dice intent: spectator check, rollDice, broadcast of the result
handleRollDice(roomCode, playerId, random) ==
  IF isSpectator(roomSpectators, roomCode, playerId)
  THEN /\ lastEvent' = [Event("roll_dice", roomCode, playerId) EXCEPT
                          !.error = "Spectators cannot perform game actions"]
       /\ UNCHANGED <<queueVars, playerSessions, tasks, roomStore, gameStore, roomSpectators, disconnectionTimers,
                      pendingRoll, turnSixes, steps, drops>>
  ELSE LET result == rollDice(gameStore, roomCode, playerId, random)
       IN  /\ result.success => steps < MaxSteps
           /\ gameStore' = result.store
           /\ lastEvent' = [Event("roll_dice", roomCode, playerId) EXCEPT
                              !.success = result.success, !.error = result.error,
                              !.diceValue = result.diceValue,
                              !.skipTurn = result.skipTurn,
                              !.sixesInRow =
                                 IF ~result.success \/ result.diceValue # 6 THEN 0
                                 ELSE IF turnSixes.playerId = playerId
                                      THEN turnSixes.count + 1 ELSE 1]
           /\ steps' = IF result.success THEN steps + 1 ELSE steps
           /\ pendingRoll' =
                IF ~result.success THEN pendingRoll
                ELSE IF result.skipTurn THEN NoRoll
                ELSE [playerId |-> playerId, diceValue |-> result.diceValue]
           /\ turnSixes' =
                IF ~result.success THEN turnSixes
                ELSE IF result.diceValue # 6 \/ result.skipTurn THEN NoSixes
                ELSE [playerId |-> playerId,
                      count |-> IF turnSixes.playerId = playerId
                                THEN turnSixes.count + 1 ELSE 1]
           /\ UNCHANGED <<queueVars, playerSessions, tasks, roomStore, roomSpectators, disconnectionTimers, drops>>

\* move_token intent: spectator check, moveToken, reload, broadcast, and the
\* turn switch when the move earned no extra turn
handleMoveToken(roomCode, playerId, tokenId, targetPositionId) ==
  IF isSpectator(roomSpectators, roomCode, playerId)
  THEN /\ lastEvent' = [Event("move_token", roomCode, playerId) EXCEPT
                          !.tokenId = tokenId, !.targetPositionId = targetPositionId,
                          !.error = "Spectators cannot perform game actions"]
       /\ UNCHANGED <<queueVars, playerSessions, tasks, roomStore, gameStore, roomSpectators, disconnectionTimers,
                      pendingRoll, turnSixes, steps, drops>>
  ELSE LET result   == moveToken(gameStore, roomCode, playerId, tokenId, targetPositionId)
           reloaded == getGameState(result.store, roomCode)
           used     == IF result.success THEN gameStore[roomCode].diceValue ELSE null
       IN  /\ result.success => steps < MaxSteps
           /\ gameStore' =
                IF result.success /\ reloaded # <<>>
                   /\ ~result.extraTurn /\ reloaded[1].phase # FINISHED
                THEN switchTurn(result.store, roomCode)
                ELSE result.store
           /\ lastEvent' = [Event("move_token", roomCode, playerId) EXCEPT
                              !.tokenId = tokenId, !.targetPositionId = targetPositionId,
                              !.success = result.success, !.error = result.error,
                              !.diceValue = used,
                              !.fromPosition = result.fromPosition,
                              !.capturedTokenId = result.capturedTokenId,
                              !.extraTurn = result.extraTurn]
           /\ steps' = IF result.success THEN steps + 1 ELSE steps
           /\ pendingRoll' = IF result.success THEN NoRoll ELSE pendingRoll
           /\ UNCHANGED <<queueVars, playerSessions, tasks, roomStore, roomSpectators, disconnectionTimers, turnSixes, drops>>

----------------------------------------------------------------------------
(* handlers/connectionHandlers.ts and the grace timer *)

\* disconnect of a socket whose socket.data names the room and the player
\* (isSpectator not set); any number of sockets can have been bound to the
\* player by join_room and reconnect_player. The timer of the n-th
\* disconnect is timer n.
handleDisconnect(roomCode, playerId) ==
  LET result == handleDisconnection(gameStore, disconnectionTimers, tasks,
                                    playerId, roomCode, drops + 1)
  IN  /\ gameStore' = result.store
      /\ disconnectionTimers' = result.timers
      /\ tasks' = result.pending
      /\ lastEvent' = [Event("disconnect", roomCode, playerId) EXCEPT !.success = TRUE]
      /\ drops' = drops + 1
      /\ UNCHANGED <<queueVars, playerSessions, roomStore, roomSpectators,
                     pendingRoll, turnSixes, steps>>

\* disconnect of a socket whose socket.data names the room and the player
\* and has isSpectator set (by spectate_game): the spectator is removed, an
\* error of removeSpectator is logged
handleDisconnectOfSpectator(roomCode, playerId) ==
  LET result == removeSpectator(roomStore, roomSpectators, roomCode, playerId)
  IN  /\ roomSpectators' = IF result.error = "" THEN result.spectatorsOf
                           ELSE roomSpectators
      /\ lastEvent' = [Event("disconnect", roomCode, playerId) EXCEPT
                         !.success = TRUE]
      /\ drops' = drops + 1
      /\ UNCHANGED <<queueVars, playerSessions, tasks, gameStore, roomStore,
                     disconnectionTimers, pendingRoll, turnSixes, steps>>

\* the setTimeout callback of handleDisconnection runs: the removal, then
\* disconnectionTimers.delete(playerId)
graceTimerExpires(timer) ==
  /\ timer \in DOMAIN tasks
  /\ tasks[timer].op = "grace_timer"
  /\ tasks[timer].pc = "scheduled"
  /\ LET playerId == tasks[timer].playerId
         roomCode == tasks[timer].roomCode
         result   == handlePermanentDisconnection(gameStore, playerSessions,
                                                  playerId, roomCode)
     IN  /\ gameStore' = result.store
         /\ playerSessions' = result.sessions
         /\ lastEvent' = [Event("grace_expired", roomCode, playerId) EXCEPT
                            !.success = result.notified]
         /\ disconnectionTimers' =
              [p \in DOMAIN disconnectionTimers \ {playerId} |-> disconnectionTimers[p]]
  /\ tasks' = [t \in DOMAIN tasks \ {timer} |-> tasks[t]]
  /\ UNCHANGED <<queueVars, roomStore, roomSpectators, pendingRoll, turnSixes,
                 steps, drops>>

\* reconnect_player: the handler builds a ReconnectionService of its own,
\* whose disconnectionTimers map is empty, so that cancelDisconnectionTimer
\* finds no timer; the timers of the connection handlers' service stay
handleReconnectPlayer(roomCode, playerId, socketId) ==
  IF playerId = "" \/ roomCode = ""
  THEN /\ lastEvent' = [Event("reconnect_player", roomCode, playerId) EXCEPT
                          !.error = "Player ID and room code are required"]
       /\ UNCHANGED <<queueVars, playerSessions, tasks, gameStore, roomStore,
                      roomSpectators, disconnectionTimers, pendingRoll, turnSixes,
                      steps, drops>>
  ELSE IF ~hasActiveSession(playerSessions, playerId, roomCode)
  THEN /\ lastEvent' = [Event("reconnect_player", roomCode, playerId) EXCEPT
                          !.error = "No active session found for this room"]
       /\ UNCHANGED <<queueVars, playerSessions, tasks, gameStore, roomStore,
                      roomSpectators, disconnectionTimers, pendingRoll, turnSixes,
                      steps, drops>>
  ELSE LET own == cancelDisconnectionTimer(<<>>, tasks, playerId)
       IN  /\ tasks' = own.pending
           /\ playerSessions' = updateSocketId(playerSessions, playerId, socketId)
           /\ gameStore' = updatePlayerConnectionStatus(gameStore, roomCode, playerId,
                                                        CONNECTED)
           /\ lastEvent' = [Event("reconnect_player", roomCode, playerId) EXCEPT
                              !.success = TRUE]
           /\ UNCHANGED <<queueVars, roomStore, roomSpectators, disconnectionTimers,
                          pendingRoll, turnSixes, steps, drops>>

\* GameService.switchTurn called on its own, for the room's game as stored
turnSwitches(roomCode) ==
  /\ steps < MaxSteps
  /\ gameStore' = switchTurn(gameStore, roomCode)
  /\ lastEvent' = [Event("switch_turn", roomCode,
                          gameStore[roomCode].players[
                            gameStore[roomCode].currentPlayerIndex + 1].playerId)
                     EXCEPT !.success = TRUE]
  /\ steps' = steps + 1
  /\ UNCHANGED <<queueVars, playerSessions, tasks, roomStore, roomSpectators, disconnectionTimers, pendingRoll, turnSixes, drops>>

----------------------------------------------------------------------------
(* The same handlers await by await. Each step is one command on the store *)
(* together with the code that runs when its reply arrives, up to the next *)
(* command. Handler invocations are numbered as they start; the ones that  *)
(* have returned stay in tasks with pc "done" as a record of the run.      *)

MaxTasks == 2

HandlerId(n) == 10 + n

withTask(pending, id, task) ==
  [t \in DOMAIN pending \cup {id} |-> IF t = id THEN task ELSE pending[t]]

\* The store that a handler holds in memory after getGameState
inMemory(task) == saveGameState(<<>>, task.gameState[1])

isAt(t, op, pc) == t \in DOMAIN tasks /\ tasks[t].op = op /\ tasks[t].pc = pc

awaits(roomCode, playerId) == lastEvent' = Event("await", roomCode, playerId)

\* disconnect: updatePlayerConnectionStatus reads the game state; without a
\* game or without the player in it nothing is saved and the timer is set
disconnectBegins(roomCode, playerId) ==
  LET n       == drops + 1
      found   == getGameState(gameStore, roomCode)
      writes  == found # <<>> /\ findPlayer(found[1], playerId) # -1
      task    == [Task("disconnect", playerId, roomCode,
                       IF writes THEN "saveGameState" ELSE "done") EXCEPT
                    !.gameState = found, !.arg = n, !.origin = found]
      started == startGraceTimer(disconnectionTimers,
                                 withTask(tasks, HandlerId(steps + 1), task),
                                 playerId, roomCode, n)
  IN  /\ steps < MaxTasks
      /\ drops' = n
      /\ steps' = steps + 1
      /\ IF writes
         THEN /\ tasks' = withTask(tasks, HandlerId(steps + 1), task)
              /\ awaits(roomCode, playerId)
              /\ UNCHANGED disconnectionTimers
         ELSE /\ tasks' = [started.pending EXCEPT ![n].origin = found]
              /\ disconnectionTimers' = started.timers
              /\ lastEvent' = [Event("disconnect", roomCode, playerId) EXCEPT
                                 !.success = TRUE]
      /\ UNCHANGED <<queueVars, playerSessions, gameStore, roomStore, roomSpectators,
                     pendingRoll, turnSixes>>

\* disconnect: the status is saved, then the player's timer is replaced
disconnectSaves(t) ==
  /\ isAt(t, "disconnect", "saveGameState")
  /\ LET task    == tasks[t]
         written == updatePlayerConnectionStatus(inMemory(task), task.roomCode,
                                                 task.playerId, DISCONNECTED)
         started == startGraceTimer(disconnectionTimers,
                                    [tasks EXCEPT ![t].pc = "done"],
                                    task.playerId, task.roomCode, task.arg)
     IN  /\ gameStore' = saveGameState(gameStore, written[task.roomCode])
         /\ tasks' = [started.pending EXCEPT
                        ![task.arg].origin = getGameState(gameStore', task.roomCode)]
         /\ disconnectionTimers' = started.timers
         /\ lastEvent' = [Event("disconnect", task.roomCode, task.playerId) EXCEPT
                            !.success = TRUE]
  /\ UNCHANGED <<queueVars, playerSessions, roomStore, roomSpectators,
                 pendingRoll, turnSixes, steps, drops>>

\* the timer's callback starts: clearTimeout no longer stops it
graceTimerFires(timer) ==
  /\ isAt(timer, "grace_timer", "scheduled")
  /\ tasks' = [tasks EXCEPT ![timer].pc = "getGameState"]
  /\ awaits(tasks[timer].roomCode, tasks[timer].playerId)
  /\ UNCHANGED <<queueVars, playerSessions, gameStore, roomStore, roomSpectators,
                 disconnectionTimers, pendingRoll, turnSixes, steps, drops>>

\* handlePermanentDisconnection reads the game state; without one it returns
\* and the callback ends with disconnectionTimers.delete(playerId)
graceTimerLoads(timer) ==
  /\ isAt(timer, "grace_timer", "getGameState")
  /\ LET task  == tasks[timer]
         found == getGameState(gameStore, task.roomCode)
     IN  IF found = <<>>
         THEN /\ tasks' = [tasks EXCEPT ![timer].pc = "done"]
              /\ disconnectionTimers' =
                   [p \in DOMAIN disconnectionTimers \ {task.playerId} |->
                      disconnectionTimers[p]]
              /\ lastEvent' = Event("grace_expired", task.roomCode, task.playerId)
         ELSE /\ tasks' = [tasks EXCEPT
                             ![timer].gameState = found,
                             ![timer].pc = IF removePlayer(found[1], task.playerId).saved
                                           THEN "saveGameState" ELSE "deleteSession"]
              /\ awaits(task.roomCode, task.playerId)
              /\ UNCHANGED disconnectionTimers
  /\ UNCHANGED <<queueVars, playerSessions, gameStore, roomStore, roomSpectators,
                 pendingRoll, turnSixes, steps, drops>>

\* handlePermanentDisconnection saves the game state without the player
graceTimerSaves(timer) ==
  /\ isAt(timer, "grace_timer", "saveGameState")
  /\ gameStore' = saveGameState(gameStore,
                    removePlayer(tasks[timer].gameState[1],
                                 tasks[timer].playerId).gameState)
  /\ tasks' = [tasks EXCEPT ![timer].pc = "deleteSession"]
  /\ awaits(tasks[timer].roomCode, tasks[timer].playerId)
  /\ UNCHANGED <<queueVars, playerSessions, roomStore, roomSpectators,
                 disconnectionTimers, pendingRoll, turnSixes, steps, drops>>

\* handlePermanentDisconnection deletes the session and calls the callback;
\* the timer's callback ends with disconnectionTimers.delete(playerId)
graceTimerEnds(timer) ==
  /\ isAt(timer, "grace_timer", "deleteSession")
  /\ playerSessions' = deletePlayerSession(playerSessions, tasks[timer].playerId)
  /\ tasks' = [tasks EXCEPT ![timer].pc = "done"]
  /\ disconnectionTimers' =
       [p \in DOMAIN disconnectionTimers \ {tasks[timer].playerId} |->
          disconnectionTimers[p]]
  /\ lastEvent' = [Event("grace_expired", tasks[timer].roomCode,
                          tasks[timer].playerId) EXCEPT !.success = TRUE]
  /\ UNCHANGED <<queueVars, gameStore, roomStore, roomSpectators,
                 pendingRoll, turnSixes, steps, drops>>

\* reconnect_player: hasActiveSession reads the session; the handler's own
\* ReconnectionService has no timer to cancel
reconnectBegins(roomCode, playerId, socketId) ==
  IF ~hasActiveSession(playerSessions, playerId, roomCode)
  THEN /\ lastEvent' = [Event("reconnect_player", roomCode, playerId) EXCEPT
                          !.error = "No active session found for this room"]
       /\ UNCHANGED <<queueVars, playerSessions, tasks, gameStore, roomStore,
                      roomSpectators, disconnectionTimers, pendingRoll, turnSixes,
                      steps, drops>>
  ELSE /\ steps < MaxTasks
       /\ steps' = steps + 1
       /\ tasks' = withTask(cancelDisconnectionTimer(<<>>, tasks, playerId).pending,
                            HandlerId(steps + 1),
                            [Task("reconnect_player", playerId, roomCode,
                                  "getPlayerSession") EXCEPT
                               !.arg = socketId,
                               !.origin = getGameState(gameStore, roomCode)])
       /\ awaits(roomCode, playerId)
       /\ UNCHANGED <<queueVars, playerSessions, gameStore, roomStore, roomSpectators,
                      disconnectionTimers, pendingRoll, turnSixes, drops>>

\* updateSocketId reads the session
reconnectReadsSession(t) ==
  /\ isAt(t, "reconnect_player", "getPlayerSession")
  /\ LET session == getPlayerSession(playerSessions, tasks[t].playerId)
     IN  tasks' = [tasks EXCEPT
                     ![t].session = session,
                     ![t].pc = IF session # <<>> THEN "setSession" ELSE "getGameState"]
  /\ awaits(tasks[t].roomCode, tasks[t].playerId)
  /\ UNCHANGED <<queueVars, playerSessions, gameStore, roomStore, roomSpectators,
                 disconnectionTimers, pendingRoll, turnSixes, steps, drops>>

\* updateSocketId stores the session it read, with the new socket id
reconnectWritesSession(t) ==
  /\ isAt(t, "reconnect_player", "setSession")
  /\ playerSessions' = storePlayerSession(playerSessions, tasks[t].arg,
                                          tasks[t].playerId,
                                          tasks[t].session[1].roomCode)
  /\ tasks' = [tasks EXCEPT ![t].pc = "getGameState"]
  /\ awaits(tasks[t].roomCode, tasks[t].playerId)
  /\ UNCHANGED <<queueVars, gameStore, roomStore, roomSpectators,
                 disconnectionTimers, pendingRoll, turnSixes, steps, drops>>

\* updatePlayerConnectionStatus reads the game state
reconnectLoads(t) ==
  /\ isAt(t, "reconnect_player", "getGameState")
  /\ LET found == getGameState(gameStore, tasks[t].roomCode)
     IN  tasks' = [tasks EXCEPT
                     ![t].gameState = found,
                     ![t].pc = IF found # <<>>
                                  /\ findPlayer(found[1], tasks[t].playerId) # -1
                               THEN "saveGameState" ELSE "reply"]
  /\ awaits(tasks[t].roomCode, tasks[t].playerId)
  /\ UNCHANGED <<queueVars, playerSessions, gameStore, roomStore, roomSpectators,
                 disconnectionTimers, pendingRoll, turnSixes, steps, drops>>

\* updatePlayerConnectionStatus saves the game state with the player CONNECTED
reconnectSaves(t) ==
  /\ isAt(t, "reconnect_player", "saveGameState")
  /\ gameStore' = saveGameState(gameStore,
                    updatePlayerConnectionStatus(inMemory(tasks[t]), tasks[t].roomCode,
                                                 tasks[t].playerId, CONNECTED)
                      [tasks[t].roomCode])
  /\ tasks' = [tasks EXCEPT ![t].pc = "reply"]
  /\ awaits(tasks[t].roomCode, tasks[t].playerId)
  /\ UNCHANGED <<queueVars, playerSessions, roomStore, roomSpectators,
                 disconnectionTimers, pendingRoll, turnSixes, steps, drops>>

\* the handler reads the game state once more and replies success
reconnectReplies(t) ==
  /\ isAt(t, "reconnect_player", "reply")
  /\ tasks' = [tasks EXCEPT ![t].pc = "done"]
  /\ lastEvent' = [Event("reconnect_player", tasks[t].roomCode, tasks[t].playerId)
                     EXCEPT !.success = TRUE]
  /\ UNCHANGED <<queueVars, playerSessions, gameStore, roomStore, roomSpectators,
                 disconnectionTimers, pendingRoll, turnSixes, steps, drops>>

\* roll_dice: rollDice reads the game state and decides; a refused roll
\* returns, a roll that skips the turn goes on to switchTurn
rollBegins(roomCode, playerId, random) ==
  LET result == rollDice(gameStore, roomCode, playerId, random)
  IN  IF ~result.success
      THEN /\ lastEvent' = [Event("roll_dice", roomCode, playerId) EXCEPT
                              !.error = result.error]
           /\ UNCHANGED <<queueVars, playerSessions, tasks, gameStore, roomStore,
                          roomSpectators, disconnectionTimers, pendingRoll, turnSixes,
                          steps, drops>>
      ELSE /\ steps < MaxTasks
           /\ steps' = steps + 1
           /\ tasks' = withTask(tasks, HandlerId(steps + 1),
                         [Task("roll_dice", playerId, roomCode,
                               IF result.skipTurn THEN "getGameState"
                               ELSE "saveGameState") EXCEPT
                            !.gameState = getGameState(gameStore, roomCode),
                            !.arg = random,
                            !.origin = getGameState(gameStore, roomCode)])
           /\ awaits(roomCode, playerId)
           /\ UNCHANGED <<queueVars, playerSessions, gameStore, roomStore,
                          roomSpectators, disconnectionTimers, pendingRoll, turnSixes,
                          drops>>

\* rollDice saves the game state with the dice value
rollSaves(t) ==
  /\ isAt(t, "roll_dice", "saveGameState")
  /\ LET task   == tasks[t]
         result == rollDice(inMemory(task), task.roomCode, task.playerId, task.arg)
     IN  /\ gameStore' = saveGameState(gameStore, result.store[task.roomCode])
         /\ lastEvent' = [Event("roll_dice", task.roomCode, task.playerId) EXCEPT
                            !.success = TRUE, !.diceValue = task.arg]
  /\ tasks' = [tasks EXCEPT ![t].pc = "done"]
  /\ UNCHANGED <<queueVars, playerSessions, roomStore, roomSpectators,
                 disconnectionTimers, pendingRoll, turnSixes, steps, drops>>

\* switchTurn, called by rollDice to skip the turn, reads the game state
rollSwitchLoads(t) ==
  /\ isAt(t, "roll_dice", "getGameState")
  /\ LET found == getGameState(gameStore, tasks[t].roomCode)
     IN  /\ tasks' = [tasks EXCEPT
                        ![t].gameState = found,
                        ![t].pc = IF found # <<>> THEN "switchTurn" ELSE "done"]
         /\ IF found # <<>> THEN awaits(tasks[t].roomCode, tasks[t].playerId)
            ELSE lastEvent' = [Event("roll_dice", tasks[t].roomCode,
                                     tasks[t].playerId) EXCEPT
                                 !.success = TRUE, !.diceValue = tasks[t].arg,
                                 !.skipTurn = TRUE]
  /\ UNCHANGED <<queueVars, playerSessions, gameStore, roomStore, roomSpectators,
                 disconnectionTimers, pendingRoll, turnSixes, steps, drops>>

\* switchTurn saves the game state with the next player
rollSwitchSaves(t) ==
  /\ isAt(t, "roll_dice", "switchTurn")
  /\ gameStore' = saveGameState(gameStore,
                    switchTurn(inMemory(tasks[t]), tasks[t].roomCode)[tasks[t].roomCode])
  /\ tasks' = [tasks EXCEPT ![t].pc = "done"]
  /\ lastEvent' = [Event("roll_dice", tasks[t].roomCode, tasks[t].playerId) EXCEPT
                     !.success = TRUE, !.diceValue = tasks[t].arg, !.skipTurn = TRUE]
  /\ UNCHANGED <<queueVars, playerSessions, roomStore, roomSpectators,
                 disconnectionTimers, pendingRoll, turnSixes, steps, drops>>

\* What moveToken returns for the intent of a move_token task, computed from
\* the game state that it read
moved(task) ==
  moveToken(saveGameState(<<>>, task.origin[1]), task.roomCode, task.playerId,
            task.tokenId, task.targetPositionId)

\* move_token: moveToken reads the game state and validates the move; a
\* refused move returns
moveBegins(roomCode, playerId, tokenId, targetPositionId) ==
  LET result == moveToken(gameStore, roomCode, playerId, tokenId, targetPositionId)
  IN  IF ~result.success
      THEN /\ lastEvent' = [Event("move_token", roomCode, playerId) EXCEPT
                              !.tokenId = tokenId,
                              !.targetPositionId = targetPositionId,
                              !.error = result.error]
           /\ UNCHANGED <<queueVars, playerSessions, tasks, gameStore, roomStore,
                          roomSpectators, disconnectionTimers, pendingRoll, turnSixes,
                          steps, drops>>
      ELSE /\ steps < MaxTasks
           /\ steps' = steps + 1
           /\ tasks' = withTask(tasks, HandlerId(steps + 1),
                         [Task("move_token", playerId, roomCode, "saveGameState") EXCEPT
                            !.gameState = getGameState(gameStore, roomCode),
                            !.origin = getGameState(gameStore, roomCode),
                            !.tokenId = tokenId,
                            !.targetPositionId = targetPositionId])
           /\ awaits(roomCode, playerId)
           /\ UNCHANGED <<queueVars, playerSessions, gameStore, roomStore,
                          roomSpectators, disconnectionTimers, pendingRoll, turnSixes,
                          drops>>

\* moveToken saves the game state with the token moved, phase ROLLING and no
\* dice, the turn still with the mover
moveSaves(t) ==
  /\ isAt(t, "move_token", "saveGameState")
  /\ gameStore' = saveGameState(gameStore, moved(tasks[t]).store[tasks[t].roomCode])
  /\ tasks' = [tasks EXCEPT ![t].pc = "getGameState"]
  /\ awaits(tasks[t].roomCode, tasks[t].playerId)
  /\ UNCHANGED <<queueVars, playerSessions, roomStore, roomSpectators,
                 disconnectionTimers, pendingRoll, turnSixes, steps, drops>>

\* the handler reads the game state again, broadcasts token_moved and the
\* state, and goes on to switchTurn unless the move earned an extra turn or
\* the game is finished
moveReloads(t) ==
  /\ isAt(t, "move_token", "getGameState")
  /\ LET task     == tasks[t]
         reloaded == getGameState(gameStore, task.roomCode)
         result   == moved(task)
     IN  IF reloaded = <<>>
         THEN /\ tasks' = [tasks EXCEPT ![t].pc = "done"]
              /\ lastEvent' = [Event("move_token", task.roomCode, task.playerId) EXCEPT
                                 !.error = "Game state not found"]
         ELSE /\ tasks' = [tasks EXCEPT
                             ![t].pc = IF ~result.extraTurn
                                          /\ reloaded[1].phase # FINISHED
                                       THEN "switchTurn" ELSE "done"]
              /\ lastEvent' = [Event("move_token", task.roomCode, task.playerId) EXCEPT
                                 !.tokenId = task.tokenId,
                                 !.targetPositionId = task.targetPositionId,
                                 !.success = TRUE,
                                 !.fromPosition = result.fromPosition,
                                 !.capturedTokenId = result.capturedTokenId,
                                 !.extraTurn = result.extraTurn]
  /\ UNCHANGED <<queueVars, playerSessions, gameStore, roomStore, roomSpectators,
                 disconnectionTimers, pendingRoll, turnSixes, steps, drops>>

\* switchTurn, called by the handler, reads the game state
moveSwitchLoads(t) ==
  /\ isAt(t, "move_token", "switchTurn")
  /\ LET found == getGameState(gameStore, tasks[t].roomCode)
     IN  tasks' = [tasks EXCEPT
                     ![t].gameState = found,
                     ![t].pc = IF found # <<>> THEN "switchTurn.saveGameState"
                               ELSE "done"]
  /\ awaits(tasks[t].roomCode, tasks[t].playerId)
  /\ UNCHANGED <<queueVars, playerSessions, gameStore, roomStore, roomSpectators,
                 disconnectionTimers, pendingRoll, turnSixes, steps, drops>>

\* switchTurn saves the game state with the next player, phase ROLLING and no
\* dice; the handler broadcasts it
moveSwitchSaves(t) ==
  /\ isAt(t, "move_token", "switchTurn.saveGameState")
  /\ gameStore' = saveGameState(gameStore,
                    switchTurn(inMemory(tasks[t]), tasks[t].roomCode)[tasks[t].roomCode])
  /\ tasks' = [tasks EXCEPT ![t].pc = "done"]
  /\ lastEvent' = [Event("turn_switched", tasks[t].roomCode, tasks[t].playerId) EXCEPT
                     !.success = TRUE]
  /\ UNCHANGED <<queueVars, playerSessions, roomStore, roomSpectators,
                 disconnectionTimers, pendingRoll, turnSixes, steps, drops>>

----------------------------------------------------------------------------
(* handlers/roomHandlers.ts *)

\* The outcome of a room intent that failed: nothing is written
roomIntentFails(op, roomCode, playerId, error) ==
  /\ lastEvent' = [Event(op, roomCode, playerId) EXCEPT !.error = error]
  /\ UNCHANGED <<queueVars, playerSessions, tasks, gameStore, roomStore, roomSpectators, disconnectionTimers,
                 pendingRoll, turnSixes, steps, drops>>

\* create_room; maxPlayers 0 stands for an intent without the field, and
\* generateUniqueRoomCode returns any code that is not in the store
handleCreateRoom(playerId, maxPlayers) ==
  LET free == {r \in {"ROOM01", "ROOM02"} : r \notin DOMAIN roomStore}
  IN  IF playerId = ""
      THEN roomIntentFails("create_room", "", playerId, "Player ID is required")
      ELSE \E roomCode \in IF free = {} THEN {""} ELSE free :
        LET result == createRoom(roomStore, roomSpectators, playerId,
                                 IF maxPlayers = 0 THEN 4 ELSE maxPlayers, roomCode)
        IN  IF result.error # ""
            THEN roomIntentFails("create_room", "", playerId, result.error)
            ELSE IF roomCode = ""
            THEN roomIntentFails("create_room", "", playerId,
                                 "Failed to generate unique room code")
            ELSE /\ steps < MaxSteps
                 /\ roomStore' = result.store
                 /\ playerSessions' = storePlayerSession(playerSessions, FIRST_SOCKET,
                                                         playerId, roomCode)
                 /\ lastEvent' = [Event("create_room", roomCode, playerId) EXCEPT
                                    !.success = TRUE]
                 /\ steps' = steps + 1
                 /\ UNCHANGED <<queueVars, tasks, gameStore, roomSpectators, disconnectionTimers,
                                pendingRoll, turnSixes, drops>>

\* join_room, with the automatic start of the game when the room is full
handleJoinRoom(roomCode, playerId) ==
  LET result == joinRoom(roomStore, roomSpectators, roomCode, playerId)
      room   == result.room
  IN  IF result.error # ""
      THEN roomIntentFails("join_room", roomCode, playerId, result.error)
      ELSE /\ steps < MaxSteps
           /\ IF Len(room.players) >= room.maxPlayers
              THEN LET started     == updateRoomStatus(result.store, roomCode, PLAYING)
                       updatedRoom == getRoomData(started, roomCode)[1]
                   IN  /\ roomStore' = started
                       /\ gameStore' = initializeGame(gameStore, roomCode,
                                         enrichRoomWithPlayers(updatedRoom))
              ELSE /\ roomStore' = result.store
                   /\ UNCHANGED gameStore
           /\ playerSessions' = storePlayerSession(playerSessions, FIRST_SOCKET,
                                                   playerId, roomCode)
           /\ lastEvent' = [Event("join_room", roomCode, playerId) EXCEPT
                              !.success = TRUE]
           /\ steps' = steps + 1
           /\ UNCHANGED <<queueVars, tasks, roomSpectators, disconnectionTimers,
                          pendingRoll, turnSixes, drops>>

\* leave_room
handleLeaveRoom(roomCode, playerId) ==
  LET result == leaveRoom(roomStore, roomSpectators, roomCode, playerId)
  IN  IF result.error # ""
      THEN roomIntentFails("leave_room", roomCode, playerId, result.error)
      ELSE /\ steps < MaxSteps
           /\ roomStore' = result.store
           /\ roomSpectators' = result.spectatorsOf
           /\ lastEvent' = [Event("leave_room", roomCode, playerId) EXCEPT
                              !.success = TRUE]
           /\ steps' = steps + 1
           /\ UNCHANGED <<queueVars, playerSessions, tasks, gameStore, disconnectionTimers,
                          pendingRoll, turnSixes, drops>>

\* start_game
handleStartGame(roomCode, playerId) ==
  LET found == getRoomData(roomStore, roomCode)
  IN  IF ~isValidRoomCode(roomCode)
      THEN roomIntentFails("start_game", roomCode, playerId, "Invalid room code format")
      ELSE IF found = <<>>
      THEN roomIntentFails("start_game", roomCode, playerId, "Room not found")
      ELSE IF found[1].hostId # playerId
      THEN roomIntentFails("start_game", roomCode, playerId,
                           "Only the host can start the game")
      ELSE IF Len(found[1].players) < 2
      THEN roomIntentFails("start_game", roomCode, playerId,
                           "At least 2 players required to start")
      ELSE LET started     == updateRoomStatus(roomStore, roomCode, PLAYING)
               updatedRoom == started[roomCode]
           IN  /\ steps < MaxSteps
               /\ roomStore' = started
               /\ gameStore' = initializeGame(gameStore, roomCode,
                                 enrichRoomWithPlayers(updatedRoom))
               /\ lastEvent' = [Event("start_game", roomCode, playerId) EXCEPT
                                  !.success = TRUE]
               /\ steps' = steps + 1
               /\ UNCHANGED <<queueVars, playerSessions, tasks, roomSpectators, disconnectionTimers,
                              pendingRoll, turnSixes, drops>>

\* spectate_game
handleSpectateGame(roomCode, playerId) ==
  LET result == addSpectator(roomStore, roomSpectators, roomCode, playerId)
  IN  IF result.error # ""
      THEN roomIntentFails("spectate_game", roomCode, playerId, result.error)
      ELSE /\ steps < MaxSteps
           /\ roomSpectators' = result.spectatorsOf
           /\ playerSessions' = storePlayerSession(playerSessions, FIRST_SOCKET,
                                                   playerId, roomCode)
           /\ lastEvent' = [Event("spectate_game", roomCode, playerId) EXCEPT
                              !.success = TRUE]
           /\ steps' = steps + 1
           /\ UNCHANGED <<queueVars, tasks, gameStore, roomStore, disconnectionTimers,
                          pendingRoll, turnSixes, drops>>

\* leave_spectator
handleLeaveSpectator(roomCode, playerId) ==
  LET result == removeSpectator(roomStore, roomSpectators, roomCode, playerId)
  IN  IF result.error # ""
      THEN roomIntentFails("leave_spectator", roomCode, playerId, result.error)
      ELSE /\ steps < MaxSteps
           /\ roomSpectators' = result.spectatorsOf
           /\ lastEvent' = [Event("leave_spectator", roomCode, playerId) EXCEPT
                              !.success = TRUE]
           /\ steps' = steps + 1
           /\ UNCHANGED <<queueVars, playerSessions, tasks, gameStore, roomStore, disconnectionTimers,
                          pendingRoll, turnSixes, drops>>

----------------------------------------------------------------------------
(* The room cleanup job of startRoomCleanupScheduler, await by await; time *)
(* is counted in minutes.                                                  *)

CLEANUP_AGE_MINUTES == 5

\* The rooms that the loop of cleanupAbandonedRooms deletes, given the rooms
\* that getAllRooms returned, in the order of the room codes
RECURSIVE abandonedRooms(_, _, _)
abandonedRooms(rooms, codes, now) ==
  IF codes = {} THEN <<>>
  ELSE LET roomCode == CHOOSE c \in codes : \A d \in codes : ~lexLess(d, c)
           rest     == abandonedRooms(rooms, codes \ {roomCode}, now)
       IN  IF /\ rooms[roomCode].status = WAITING
              /\ now - rooms[roomCode].createdAt > CLEANUP_AGE_MINUTES
           THEN <<roomCode>> \o rest
           ELSE rest

\* cleanupAbandonedRooms: getAllRooms reads every stored room, `now` is taken
cleanupBegins ==
  LET n == Cardinality(DOMAIN tasks) + 1
  IN  /\ n <= MaxTasks
      /\ tasks' = withTask(tasks, HandlerId(n),
                    [Task("cleanup_rooms", "", "", "delete") EXCEPT
                       !.rooms = abandonedRooms(roomStore, DOMAIN roomStore, clock)])
      /\ lastEvent' = Event("await", "", "")
      /\ UNCHANGED <<queueVars, playerSessions, gameStore, roomStore, roomSpectators,
                     disconnectionTimers, pendingRoll, turnSixes, steps, drops>>

\* cleanupAbandonedRooms: the key of the next abandoned room is deleted; the
\* job ends when none is left
cleanupDeletes(t) ==
  /\ isAt(t, "cleanup_rooms", "delete")
  /\ IF tasks[t].rooms = <<>>
     THEN /\ tasks' = [tasks EXCEPT ![t].pc = "done"]
          /\ lastEvent' = [Event("cleanup_rooms", "", "") EXCEPT !.success = TRUE]
          /\ UNCHANGED <<roomStore, roomSpectators>>
     ELSE LET roomCode == Head(tasks[t].rooms)
          IN  /\ roomStore' = deleteRoom(roomStore, roomCode)
              /\ roomSpectators' = [r \in DOMAIN roomSpectators \ {roomCode} |->
                                      roomSpectators[r]]
              /\ tasks' = [tasks EXCEPT ![t].rooms = Tail(@)]
              /\ lastEvent' = [Event("cleanup_rooms", roomCode, "") EXCEPT
                                 !.success = TRUE]
  /\ UNCHANGED <<queueVars, playerSessions, gameStore, disconnectionTimers,
                 pendingRoll, turnSixes, steps, drops>>

----------------------------------------------------------------------------
(* handlers/matchmakingHandlers.ts *)

\* join_matchmaking; preferredPlayers 0 stands for an intent without the
\* field. Date.now() never goes back and may return the value it returned
\* to the previous caller.
handleJoinMatchmaking(playerId, playerName, preferredPlayers) ==
  \E timestamp \in {clock, clock + 1} :
    LET result == addToQueue(matchmakingQueue, matchmakingPlayer, playerId, playerName,
                             IF preferredPlayers = 0 THEN 4 ELSE preferredPlayers,
                             timestamp)
        added  == playerId \in DOMAIN result.player \ DOMAIN matchmakingPlayer
    IN  /\ timestamp <= MaxClock
        /\ ~added => timestamp = clock
        /\ matchmakingQueue' = result.queue
        /\ matchmakingPlayer' = result.player
        /\ clock' = timestamp
        /\ enqueueOrder' = IF added THEN Append(enqueueOrder, playerId) ELSE enqueueOrder
        /\ lastEvent' = [Event("join_matchmaking", "", playerId) EXCEPT
                           !.success = (result.error = ""), !.error = result.error]
        /\ UNCHANGED <<playerSessions, tasks, gameStore, roomStore, roomSpectators, disconnectionTimers,
                       pendingRoll, turnSixes, steps, drops>>

\* leave_matchmaking
handleLeaveMatchmaking(playerId) ==
  LET result  == removeFromQueue(matchmakingQueue, matchmakingPlayer, playerId)
      other(p) == p \in DOMAIN result.player
  IN  /\ matchmakingQueue' = result.queue
      /\ matchmakingPlayer' = result.player
      /\ enqueueOrder' = SelectSeq(enqueueOrder, other)
      /\ lastEvent' = [Event("leave_matchmaking", "", playerId) EXCEPT
                         !.success = (result.error = ""), !.error = result.error]
      /\ UNCHANGED <<playerSessions, tasks, gameStore, roomStore, roomSpectators, disconnectionTimers,
                     pendingRoll, turnSixes, steps, drops, clock>>

\* One run of the scheduler's interval callback: findMatch and, for a group
\* found, createMatchedRoom and the match_found notification
matchmakingCheck ==
  LET found == findMatch(matchmakingQueue, matchmakingPlayer)
      free  == {r \in {"ROOM01", "ROOM02"} : r \notin DOMAIN roomStore}
  IN  IF zCard(matchmakingQueue) < 2
      THEN /\ lastEvent' = Event("matchmaking_check", "", "")
           /\ UNCHANGED <<playerSessions, tasks, gameStore, roomStore, roomSpectators, disconnectionTimers,
                          pendingRoll, turnSixes, steps, drops, queueVars>>
      ELSE IF found.match = <<>>
      THEN /\ matchmakingQueue' = found.queue
           /\ lastEvent' = Event("matchmaking_check", "", "")
           /\ UNCHANGED <<playerSessions, tasks, gameStore, roomStore, roomSpectators, disconnectionTimers,
                          pendingRoll, turnSixes, steps, drops,
                          matchmakingPlayer, clock, enqueueOrder>>
      ELSE \E roomCode \in free :
        LET made == createMatchedRoom(roomStore, roomSpectators, found.queue,
                                      matchmakingPlayer, found.match, roomCode)
            left(p) == p \in DOMAIN made.player
        IN  /\ roomStore' = made.store
            /\ matchmakingQueue' = made.queue
            /\ matchmakingPlayer' = made.player
            /\ enqueueOrder' = SelectSeq(enqueueOrder, left)
            /\ lastEvent' = [Event("match_found", made.roomCode,
                                    found.match[1].playerId) EXCEPT
                               !.success = (made.error = ""), !.error = made.error,
                               !.players = [i \in 1..Len(found.match) |->
                                              found.match[i].playerId]]
            /\ UNCHANGED <<playerSessions, tasks, gameStore, roomSpectators,
                           disconnectionTimers, pendingRoll, turnSixes, steps, drops,
                           clock>>

----------------------------------------------------------------------------
(* Starting states *)

\* The sessions that create_room and join_room have stored for the players
\* of the rooms, each over the player's first connection
joinedSessions(store) ==
  LET joined == {<<r, i>> \in (DOMAIN store) \X (1..4) : i <= Len(store[r].players)}
  IN  [p \in {store[m[1]].players[m[2]] : m \in joined} |->
         LET m == CHOOSE m \in joined : store[m[1]].players[m[2]] = p
         IN  PlayerSession(p, m[1], FIRST_SOCKET)]

\* Nobody has joined the matchmaking queue
NoMatchmaking ==
  /\ matchmakingQueue = <<>>
  /\ matchmakingPlayer = <<>>
  /\ clock = 0
  /\ enqueueOrder = <<>>

\* The stored room of a game that has been started for these players
startedRoom(roomCode, players) ==
  [roomCode   |-> roomCode,
   hostId     |-> players[1].playerId,
   players    |-> [i \in 1..Len(players) |-> players[i].playerId],
   status     |-> PLAYING,
   maxPlayers |-> 4,
   createdAt  |-> 0]

ROOM  == "ROOM01"      \* the room whose game is played
OTHER_ROOM == "ROOM02" \* a room code under which no game is stored

\* A Player as enrichRoomWithPlayers builds it for the index-th member
newPlayer(playerId, index) ==
  [playerId |-> playerId, color |-> COLOR_ORDER[(index % Len(COLOR_ORDER)) + 1],
   connectionStatus |-> CONNECTED, rank |-> 0]

Members(n) == [i \in 1..n |-> newPlayer(<<"p1", "p2", "p3", "p4">>[i], i - 1)]

\* The cell of token number k of a colour at path index i; -1 is its base slot
cellAt(color, k, i) ==
  IF i = -1 THEN BASE_POSITIONS[color][k] ELSE TOKEN_PATHS[color][i + 1]

\* A game some turns after initializeGame: board gives, per colour, the path
\* index of each of the four tokens, and it is the turn of the player at
\* index current, about to roll.
gameInProgress(n, board, current) ==
  LET fresh == initializeGame(<<>>, ROOM, Members(n))[ROOM]
  IN  [fresh EXCEPT
         !.tokenPositions =
            [c \in DOMAIN fresh.tokenPositions |->
               [k \in 1..4 |->
                  [fresh.tokenPositions[c][k] EXCEPT
                     !.positionId = cellAt(c, k, board[c][k])]]],
         !.currentPlayerIndex = current]

allInBase == <<-1, -1, -1, -1>>

\* Boards that play reaches: every token is on its own base slot, on a cell
\* of its own path or on its home cell, tokens of two colours never share a
\* cell that is not a safe spot, and no player has yet brought all four
\* tokens home.
\*  midBoard: two red tokens stacked on G05 (not safe), one red token on G02
\*            (safe); a blue token 1 cell before G05 and 4 before G02.
\*  endBoard: red and blue each have three tokens home and one token on the
\*            home stretch, red's at path index k, blue's one cell from home.
midBoard ==
  [c \in PlayerColor |->
     CASE c = RED  -> <<5, 5, 8, -1>>
       [] c = BLUE -> <<17, -1, -1, -1>>
       [] OTHER    -> allInBase]

endBoard(k) ==
  [c \in PlayerColor |->
     CASE c = RED  -> <<56, 56, 56, k>>
       [] c = BLUE -> <<56, 56, 56, 55>>
       [] OTHER    -> allInBase]

StartingGames ==
  {initializeGame(<<>>, ROOM, Members(n))[ROOM] : n \in {2, 3}}
    \cup {gameInProgress(2, midBoard, 1)}
    \cup {gameInProgress(n, endBoard(k), 0) : n \in {2, 3}, k \in {50, 52}}

Init ==
  /\ \E gameState \in StartingGames : gameStore = saveGameState(<<>>, gameState)
  /\ roomStore = [r \in {ROOM} |-> startedRoom(r, gameStore[r].players)]
  /\ roomSpectators = [r \in {ROOM} |-> <<"s1">>]
  /\ disconnectionTimers = <<>>
  /\ lastEvent = Event("game_started", ROOM, "")
  /\ pendingRoll = NoRoll
  /\ turnSixes = NoSixes
  /\ steps = 0
  /\ drops = 0
  /\ NoMatchmaking
  /\ playerSessions = joinedSessions(roomStore)
  /\ tasks = <<>>

----------------------------------------------------------------------------
(* Intents that clients submit *)

game == gameStore[ROOM]

PlayerIds == {game.players[i].playerId : i \in 1..Len(game.players)}

\* Everyone who can send an intent for the room: its players and spectators
Senders == PlayerIds \cup {roomSpectators[ROOM][i] : i \in 1..Len(roomSpectators[ROOM])}

colorOf(playerId) ==
  LET i == CHOOSE j \in 1..Len(game.players) : game.players[j].playerId = playerId
  IN  game.players[i].color

\* Dice values a client may assume when it computes a target: the stored
\* one and its successor, or 6 while no dice is stored
GuessedDice == IF game.diceValue = null THEN {6} ELSE {game.diceValue, (game.diceValue % 6) + 1}

\* The target a client computes for a token under an assumed dice value; a
\* token that cannot move is sent to the start cell
targetFor(positionId, color, d) ==
  LET v == canMoveToken(positionId, d, color)
  IN  IF v.valid THEN v.targetPosition ELSE START_POSITIONS[color]

MoveIntents ==
  LET current == game.players[game.currentPlayerIndex + 1]
      own     == game.tokenPositions[current.color]
      foreign == CHOOSE c \in DOMAIN game.tokenPositions : c # current.color
      first(p) == IF p \in PlayerIds THEN game.tokenPositions[colorOf(p)][1]
                  ELSE own[1]
      \* while no dice is stored one token stands for the four
      tried   == IF game.diceValue = null THEN {1} ELSE 1..4
  IN  \* the player whose turn it is: an own token to a computed target
      {[playerId |-> current.playerId, tokenId |-> own[k].tokenId,
        target |-> targetFor(own[k].positionId, current.color, d)] :
         k \in tried, d \in GuessedDice}
      \* ... to a cell that is not on the board, a token of another colour,
      \* or a well-formed id of no token
      \cup (IF game.diceValue = null THEN {}
            ELSE {[playerId |-> current.playerId, tokenId |-> own[1].tokenId,
                   target |-> <<"X","0","0">>]}
                 \cup {[playerId |-> current.playerId, tokenId |-> id,
                        target |-> START_POSITIONS[current.color]] :
                         id \in {game.tokenPositions[foreign][1].tokenId,
                                 <<toUpperCase(current.color[1]), "T", "5">>}})
      \* anyone else: their first token to the start cell
      \cup {[playerId |-> p, tokenId |-> first(p).tokenId,
             target |-> START_POSITIONS[current.color]] :
              p \in Senders \ {current.playerId}}

\* Values of the dice that are explored: the six and two other faces
DiceFaces == {1, 4, 6}

\* Clients of every kind: any sender may roll or move at any time
Next ==
  \/ \E p \in Senders, random \in DiceFaces : handleRollDice(ROOM, p, random)
  \/ \E random \in DiceFaces : handleRollDice(OTHER_ROOM, "p1", random)
  \/ \E m \in MoveIntents : handleMoveToken(ROOM, m.playerId, m.tokenId, m.target)
  \/ handleMoveToken(OTHER_ROOM, "p1", <<"R","T","1">>, START_POSITIONS[RED])

Spec == Init /\ [][Next]_vars

----------------------------------------------------------------------------
(* Play with disconnects: the player whose turn it is rolls, and moves a   *)
(* token to the target computed from the stored dice, while sockets of     *)
(* players drop and grace timers expire.                                   *)

GraceStartingGames ==
  {initializeGame(<<>>, ROOM, Members(3))[ROOM], gameInProgress(2, midBoard, 1),
   gameInProgress(2, endBoard(52), 0), gameInProgress(3, endBoard(50), 0)}

InitGrace ==
  /\ \E gameState \in GraceStartingGames : gameStore = saveGameState(<<>>, gameState)
  /\ roomStore = [r \in {ROOM} |-> startedRoom(r, gameStore[r].players)]
  /\ roomSpectators = [r \in {ROOM} |-> <<"s1">>]
  /\ disconnectionTimers = <<>>
  /\ lastEvent = Event("game_started", ROOM, "")
  /\ pendingRoll = NoRoll
  /\ turnSixes = NoSixes
  /\ steps = 0
  /\ drops = 0
  /\ NoMatchmaking
  /\ playerSessions = joinedSessions(roomStore)
  /\ tasks = <<>>

TurnIntents ==
  LET current == game.players[game.currentPlayerIndex + 1]
      own     == game.tokenPositions[current.color]
  IN  {[playerId |-> current.playerId, tokenId |-> own[k].tokenId,
        target |-> targetFor(own[k].positionId, current.color, game.diceValue)] :
         k \in 1..4}

NextGrace ==
  \/ \E random \in DiceFaces :
       handleRollDice(ROOM, game.players[game.currentPlayerIndex + 1].playerId, random)
  \/ /\ game.diceValue # null
     /\ \E m \in TurnIntents : handleMoveToken(ROOM, m.playerId, m.tokenId, m.target)
  \/ /\ drops < MaxDrops
     /\ \E p \in PlayerIds : handleDisconnect(ROOM, p)
  \/ \E timer \in DOMAIN tasks : graceTimerExpires(timer)

SpecGrace == InitGrace /\ [][NextGrace]_vars

----------------------------------------------------------------------------
(* switchTurn on its own: every player list of 1 to 4 players, every       *)
(* assignment of ranks and every current index.                            *)

RankChoices == {0, 1, 2}

TurnGames ==
  {[initializeGame(<<>>, ROOM, Members(n))[ROOM] EXCEPT
      !.players = [i \in 1..n |-> [Members(n)[i] EXCEPT !.rank = ranks[i]]],
      !.currentPlayerIndex = current] :
     n \in 1..4, ranks \in [1..4 -> RankChoices], current \in 0..3}

InitTurn ==
  /\ \E gameState \in TurnGames :
       /\ gameState.currentPlayerIndex < Len(gameState.players)
       /\ gameStore = saveGameState(<<>>, gameState)
  /\ roomStore = [r \in {ROOM} |-> startedRoom(r, gameStore[r].players)]
  /\ roomSpectators = [r \in {ROOM} |-> <<"s1">>]
  /\ disconnectionTimers = <<>>
  /\ lastEvent = Event("game_started", ROOM, "")
  /\ pendingRoll = NoRoll
  /\ turnSixes = NoSixes
  /\ steps = 0
  /\ drops = 0
  /\ NoMatchmaking
  /\ playerSessions = joinedSessions(roomStore)
  /\ tasks = <<>>

NextTurn == turnSwitches(ROOM)

SpecTurn == InitTurn /\ [][NextTurn]_vars

----------------------------------------------------------------------------
(* canMoveToken on its own: every colour, every cell of the board and      *)
(* every dice value.                                                       *)

AllCells ==
  UNION {{BASE_POSITIONS[c][k] : k \in 1..4}
           \cup {TOKEN_PATHS[c][i] : i \in 1..Len(TOKEN_PATHS[c])} : c \in PlayerColor}

\* canMoveToken(tokenPosition, diceValue, color) for the token position and
\* dice value a player asks about
canMoveChecked ==
  LET playerId      == lastEvent.playerId
      tokenPosition == lastEvent.fromPosition
      diceValue     == lastEvent.diceValue
      result        == canMoveToken(tokenPosition, diceValue, colorOf(playerId))
  IN  /\ lastEvent.op = "can_move_token?"
      /\ lastEvent' = [Event("can_move_token", ROOM, playerId) EXCEPT
                         !.fromPosition = tokenPosition,
                         !.diceValue = diceValue,
                         !.success = result.valid,
                         !.targetPositionId = result.targetPosition,
                         !.error = result.reason]
      /\ UNCHANGED <<queueVars, playerSessions, tasks, roomStore, gameStore, roomSpectators, disconnectionTimers,
                     pendingRoll, turnSixes, steps, drops>>

InitRules ==
  /\ gameStore = initializeGame(<<>>, ROOM, Members(4))
  /\ roomStore = [r \in {ROOM} |-> startedRoom(r, gameStore[r].players)]
  /\ roomSpectators = [r \in {ROOM} |-> <<"s1">>]
  /\ disconnectionTimers = <<>>
  /\ \E p \in PlayerIds, tokenPosition \in AllCells, diceValue \in 1..6 :
       lastEvent = [Event("can_move_token?", ROOM, p) EXCEPT
                      !.fromPosition = tokenPosition, !.diceValue = diceValue]
  /\ pendingRoll = NoRoll
  /\ turnSixes = NoSixes
  /\ steps = 0
  /\ drops = 0
  /\ NoMatchmaking
  /\ playerSessions = joinedSessions(roomStore)
  /\ tasks = <<>>

NextRules == canMoveChecked

SpecRules == InitRules /\ [][NextRules]_vars

----------------------------------------------------------------------------
(* Room lifecycle: clients create, join, leave, start and watch rooms,     *)
(* starting from an empty store.                                           *)

RoomUsers == {"p1", "p2", "p3", "s1"}

\* maxPlayers of create_room intents: absent (0), too small, legal, too large
MaxPlayersChoices == {0, 1, 2, 5}

\* A room of three waiting for its fourth player, as createRoom and two
\* joinRoom calls leave it
roomOfThree ==
  [roomCode |-> ROOM, hostId |-> "p1", players |-> <<"p1", "p2", "p3">>,
   status |-> WAITING, maxPlayers |-> 4, createdAt |-> 0]

InitRoom ==
  /\ gameStore = <<>>
  /\ roomStore \in {<<>>, setRoom(<<>>, roomOfThree)}
  /\ roomSpectators = <<>>
  /\ disconnectionTimers = <<>>
  /\ lastEvent = Event("server_started", "", "")
  /\ pendingRoll = NoRoll
  /\ turnSixes = NoSixes
  /\ steps = 0
  /\ drops = 0
  /\ NoMatchmaking
  /\ playerSessions = joinedSessions(roomStore)
  /\ tasks = <<>>

NextRoom ==
  \/ \E p \in {"p1", "p2"}, maxPlayers \in MaxPlayersChoices : handleCreateRoom(p, maxPlayers)
  \/ \E p \in RoomUsers : handleJoinRoom(ROOM, p)
  \/ handleJoinRoom("room", "p2")
  \/ \E p \in RoomUsers : handleLeaveRoom(ROOM, p)
  \/ \E p \in {"p1", "p2"} : handleStartGame(ROOM, p)
  \/ \E p \in {"p2", "s1"} : handleSpectateGame(ROOM, p)
  \/ \E p \in {"p2", "s1"} : handleLeaveSpectator(ROOM, p)

SpecRoom == InitRoom /\ [][NextRoom]_vars

----------------------------------------------------------------------------
(* Matchmaking queue: clients join and leave the queue, starting from an   *)
(* empty queue.                                                            *)

\* preferredPlayers of join_matchmaking intents: absent (0), legal, too large
PreferredChoices == {0, 2, 3, 5}

InitQueue ==
  /\ gameStore = <<>>
  /\ roomStore = <<>>
  /\ roomSpectators = <<>>
  /\ disconnectionTimers = <<>>
  /\ lastEvent = Event("server_started", "", "")
  /\ pendingRoll = NoRoll
  /\ turnSixes = NoSixes
  /\ steps = 0
  /\ drops = 0
  /\ NoMatchmaking
  /\ playerSessions = joinedSessions(roomStore)
  /\ tasks = <<>>

NextQueue ==
  \/ \E playerId \in {"A", "B", "C"}, preferredPlayers \in PreferredChoices :
       handleJoinMatchmaking(playerId, "name", preferredPlayers)
  \/ handleJoinMatchmaking("", "name", 4)
  \/ handleJoinMatchmaking("A", "", 4)
  \/ \E playerId \in {"A", "B", "C"} : handleLeaveMatchmaking(playerId)
  \/ handleLeaveMatchmaking("")

SpecQueue == InitQueue /\ [][NextQueue]_vars

----------------------------------------------------------------------------
(* Matchmaking scheduler: the interval callback runs on every queue that   *)
(* join_matchmaking intents can have built, on a server where one room is  *)
(* waiting.                                                                *)

\* The orders in which the players of a queue can have been added: Date.now()
\* never goes back
EnqueueOrders(timestamps) ==
  LET n == Cardinality(DOMAIN timestamps)
  IN  {o \in [1..n -> DOMAIN timestamps] :
         /\ \A i, j \in 1..n : i # j => o[i] # o[j]
         /\ \A i, j \in 1..n : i < j => timestamps[o[i]] <= timestamps[o[j]]}

RECURSIVE maxOf(_)
maxOf(S) ==
  IF S = {} THEN 0
  ELSE LET x == CHOOSE x \in S : TRUE
           m == maxOf(S \ {x})
       IN  IF x > m THEN x ELSE m

InitMatch ==
  /\ gameStore = <<>>
  /\ roomStore = setRoom(<<>>, roomOfThree)
  /\ roomSpectators = <<>>
  /\ disconnectionTimers = <<>>
  /\ lastEvent = Event("server_started", "", "")
  /\ pendingRoll = NoRoll
  /\ turnSixes = NoSixes
  /\ steps = 0
  /\ drops = 0
  /\ \E queued \in SUBSET {QueueIds[i] : i \in 1..Len(QueueIds)} :
       \E preferred \in [queued -> {2, 3, 4}], timestamps \in [queued -> 0..MaxClock] :
         /\ matchmakingQueue = timestamps
         /\ matchmakingPlayer =
              [p \in queued |-> [playerId |-> p, playerName |-> "name",
                                 preferredPlayers |-> preferred[p],
                                 timestamp |-> timestamps[p]]]
         /\ clock = maxOf({timestamps[p] : p \in queued})
         /\ enqueueOrder \in EnqueueOrders(timestamps)
  /\ playerSessions = joinedSessions(roomStore)
  /\ tasks = <<>>

NextMatch == matchmakingCheck

SpecMatch == InitMatch /\ [][NextMatch]_vars

----------------------------------------------------------------------------
(* Reconnection: sockets of the players of one room drop, grace timers run *)
(* out and players send reconnect_player, in a game that is being played   *)
(* and in a room that is still waiting for its game.                       *)

ReconnectStartingGames ==
  {gameInProgress(n, midBoard, current) : n \in {2, 3}, current \in {0, 1}}

InitReconnect ==
  /\ \/ \E gameState \in ReconnectStartingGames :
          /\ gameStore = saveGameState(<<>>, gameState)
          /\ roomStore = [r \in {ROOM} |-> startedRoom(r, gameState.players)]
     \/ /\ gameStore = <<>>
        /\ roomStore = setRoom(<<>>, roomOfThree)
  /\ roomSpectators = <<>>
  /\ disconnectionTimers = <<>>
  /\ lastEvent = Event("server_started", "", "")
  /\ pendingRoll = NoRoll
  /\ turnSixes = NoSixes
  /\ steps = 0
  /\ drops = 0
  /\ NoMatchmaking
  /\ playerSessions = joinedSessions(roomStore)
  /\ tasks = <<>>

NextReconnect ==
  \/ /\ drops < MaxDisconnects
     /\ \E p \in {"p1", "p2"} : handleDisconnect(ROOM, p)
  \/ \E timer \in DOMAIN tasks : graceTimerExpires(timer)
  \/ \E p \in {"p1", "p2"} : handleReconnectPlayer(ROOM, p, NEXT_SOCKET)
  \/ handleReconnectPlayer(OTHER_ROOM, "p1", NEXT_SOCKET)
  \/ handleReconnectPlayer(ROOM, "", NEXT_SOCKET)

SpecReconnect == InitReconnect /\ [][NextReconnect]_vars

----------------------------------------------------------------------------
(* Interleavings: the handlers of one room run await by await, so that the *)
(* commands of two invocations reach the store in any order. A game is     *)
(* being played; p1 is connected, or has dropped and its grace timer runs. *)

RaceStartingGames ==
  {gameInProgress(2, midBoard, 0), gameInProgress(3, midBoard, 2)}

RaceDice == {3, 6}

InitRace ==
  /\ \E gameState \in RaceStartingGames :
       \/ /\ gameStore = saveGameState(<<>>, gameState)
          /\ disconnectionTimers = <<>>
          /\ tasks = <<>>
          /\ drops = 0
       \/ /\ gameStore = updatePlayerConnectionStatus(saveGameState(<<>>, gameState),
                                                      ROOM, "p1", DISCONNECTED)
          /\ disconnectionTimers = [p \in {"p1"} |-> 1]
          /\ tasks = [t \in {1} |->
                        [Task("grace_timer", "p1", ROOM, "scheduled") EXCEPT
                           !.origin = getGameState(gameStore, ROOM)]]
          /\ drops = 1
  /\ roomStore = [r \in {ROOM} |-> startedRoom(r, game.players)]
  /\ roomSpectators = <<>>
  /\ lastEvent = Event("server_started", "", "")
  /\ pendingRoll = NoRoll
  /\ turnSixes = NoSixes
  /\ steps = 0
  /\ NoMatchmaking
  /\ playerSessions = joinedSessions(roomStore)

NextRace ==
  \/ disconnectBegins(ROOM, "p1")
  \/ \E t \in DOMAIN tasks : disconnectSaves(t)
  \/ \E t \in DOMAIN tasks : graceTimerFires(t)
  \/ \E t \in DOMAIN tasks : graceTimerLoads(t)
  \/ \E t \in DOMAIN tasks : graceTimerSaves(t)
  \/ \E t \in DOMAIN tasks : graceTimerEnds(t)
  \/ reconnectBegins(ROOM, "p1", NEXT_SOCKET)
  \/ \E t \in DOMAIN tasks : reconnectReadsSession(t)
  \/ \E t \in DOMAIN tasks : reconnectWritesSession(t)
  \/ \E t \in DOMAIN tasks : reconnectLoads(t)
  \/ \E t \in DOMAIN tasks : reconnectSaves(t)
  \/ \E t \in DOMAIN tasks : reconnectReplies(t)
  \/ \E p \in PlayerIds, random \in RaceDice : rollBegins(ROOM, p, random)
  \/ \E t \in DOMAIN tasks : rollSaves(t)
  \/ \E t \in DOMAIN tasks : rollSwitchLoads(t)
  \/ \E t \in DOMAIN tasks : rollSwitchSaves(t)

SpecRace == InitRace /\ [][NextRace]_vars

----------------------------------------------------------------------------
(* Spectators: while a game is played, s1 spectates, leaves, sends game    *)
(* intents and reconnect_player from a second socket, and its sockets      *)
(* drop. The socket that sent spectate_game has isSpectator set as long as *)
(* s1 is in the room's spectators; a socket bound by reconnect_player is   *)
(* the one whose id updateSocketId stored in the session.                  *)

SPECTATOR == "s1"

InitSpectate ==
  /\ gameStore = saveGameState(<<>>, gameInProgress(2, midBoard, 0))
  /\ roomStore = [r \in {ROOM} |-> startedRoom(r, game.players)]
  /\ roomSpectators = [r \in {ROOM} |-> <<>>]
  /\ disconnectionTimers = <<>>
  /\ lastEvent = Event("game_started", ROOM, "")
  /\ pendingRoll = NoRoll
  /\ turnSixes = NoSixes
  /\ steps = 0
  /\ drops = 0
  /\ NoMatchmaking
  /\ playerSessions = joinedSessions(roomStore)
  /\ tasks = <<>>

NextSpectate ==
  \/ handleSpectateGame(ROOM, SPECTATOR)
  \/ handleLeaveSpectator(ROOM, SPECTATOR)
  \/ handleReconnectPlayer(ROOM, SPECTATOR, NEXT_SOCKET)
  \/ \E p \in Senders, random \in DiceFaces : handleRollDice(ROOM, p, random)
  \/ \E p \in Senders, m \in TurnIntents :
       handleMoveToken(ROOM, p, m.tokenId, m.target)
  \/ /\ drops < MaxDisconnects
     /\ isSpectator(roomSpectators, ROOM, SPECTATOR)
     /\ handleDisconnectOfSpectator(ROOM, SPECTATOR)
  \/ /\ drops < MaxDisconnects
     /\ hasActiveSession(playerSessions, SPECTATOR, ROOM)
     /\ playerSessions[SPECTATOR].socketId = NEXT_SOCKET
     /\ SPECTATOR \notin DOMAIN disconnectionTimers
     /\ handleDisconnect(ROOM, SPECTATOR)
  \/ \E timer \in DOMAIN tasks : graceTimerExpires(timer)

SpecSpectate == InitSpectate /\ [][NextSpectate]_vars

----------------------------------------------------------------------------
(* Room cleanup: the cleanup job runs while players join, leave and start  *)
(* the game of a waiting room that is older than the threshold, exactly as *)
(* old, or new.                                                            *)

RoomAges == {0, CLEANUP_AGE_MINUTES, CLEANUP_AGE_MINUTES + 1}

InitSweep ==
  /\ gameStore = <<>>
  /\ clock = CLEANUP_AGE_MINUTES + 1
  /\ \E age \in RoomAges :
       roomStore = setRoom(<<>>, [roomOfThree EXCEPT !.createdAt = clock - age])
  /\ roomSpectators = <<>>
  /\ disconnectionTimers = <<>>
  /\ lastEvent = Event("server_started", "", "")
  /\ pendingRoll = NoRoll
  /\ turnSixes = NoSixes
  /\ steps = 0
  /\ drops = 0
  /\ matchmakingQueue = <<>>
  /\ matchmakingPlayer = <<>>
  /\ enqueueOrder = <<>>
  /\ playerSessions = joinedSessions(roomStore)
  /\ tasks = <<>>

NextSweep ==
  \/ cleanupBegins
  \/ \E t \in DOMAIN tasks : cleanupDeletes(t)
  \/ \E p \in {"p3", "p4"} : handleJoinRoom(ROOM, p)
  \/ \E p \in {"p1", "p3"} : handleLeaveRoom(ROOM, p)
  \/ \E p \in {"p1", "p2"} : handleStartGame(ROOM, p)

SpecSweep == InitSweep /\ [][NextSweep]_vars

----------------------------------------------------------------------------
(* A move and the rolls around it, await by await: the player whose turn   *)
(* it is has rolled, and move_token and roll_dice intents of the players   *)
(* reach the server while earlier ones are still being handled.            *)

\* redAhead: the board of midBoard before blue has brought a token out.
redAhead ==
  [c \in PlayerColor |->
     IF c = RED THEN <<5, 5, 8, -1>> ELSE allInBase]

MoveStartingGames ==
  {rollDice(saveGameState(<<>>, gameInProgress(2, board, 0)),
            ROOM, "p1", random).store[ROOM] :
     board \in {midBoard, redAhead}, random \in RaceDice}

InitMoveRace ==
  /\ \E gameState \in MoveStartingGames : gameStore = saveGameState(<<>>, gameState)
  /\ roomStore = [r \in {ROOM} |-> startedRoom(r, game.players)]
  /\ roomSpectators = <<>>
  /\ disconnectionTimers = <<>>
  /\ lastEvent = Event("server_started", "", "")
  /\ pendingRoll = NoRoll
  /\ turnSixes = NoSixes
  /\ steps = 0
  /\ drops = 0
  /\ NoMatchmaking
  /\ playerSessions = joinedSessions(roomStore)
  /\ tasks = <<>>

NextMoveRace ==
  \/ /\ game.diceValue # null
     /\ \E m \in TurnIntents : moveBegins(ROOM, m.playerId, m.tokenId, m.target)
  \/ \E t \in DOMAIN tasks : moveSaves(t)
  \/ \E t \in DOMAIN tasks : moveReloads(t)
  \/ \E t \in DOMAIN tasks : moveSwitchLoads(t)
  \/ \E t \in DOMAIN tasks : moveSwitchSaves(t)
  \/ \E p \in PlayerIds, random \in RaceDice : rollBegins(ROOM, p, random)
  \/ \E t \in DOMAIN tasks : rollSaves(t)
  \/ \E t \in DOMAIN tasks : rollSwitchLoads(t)
  \/ \E t \in DOMAIN tasks : rollSwitchSaves(t)

SpecMoveRace == InitMoveRace /\ [][NextMoveRace]_vars

----------------------------------------------------------------------------
(* The matchmaking scheduler await by await: a tick reads the queue and    *)
(* finds a match, and creates the room in later store round trips; ticks   *)
(* of the interval and leave_matchmaking intents run in between.           *)

\* a tick of the interval: getQueueSize and findMatch
tickFinds ==
  LET found == findMatch(matchmakingQueue, matchmakingPlayer)
      n     == Cardinality(DOMAIN tasks) + 1
  IN  /\ n <= MaxTasks
      /\ IF zCard(matchmakingQueue) < 2
         THEN /\ tasks' = withTask(tasks, HandlerId(n),
                            Task("matchmaking_check", "", "", "done"))
              /\ UNCHANGED matchmakingQueue
         ELSE /\ tasks' = withTask(tasks, HandlerId(n),
                            [Task("matchmaking_check", "", "",
                                  IF found.match = <<>> THEN "done"
                                  ELSE "createMatchedRoom") EXCEPT
                               !.origin = found.match])
              /\ matchmakingQueue' = found.queue
      /\ lastEvent' = Event("matchmaking_check", "", "")
      /\ UNCHANGED <<playerSessions, gameStore, roomStore, roomSpectators,
                     disconnectionTimers, pendingRoll, turnSixes, steps, drops,
                     matchmakingPlayer, clock, enqueueOrder>>

\* the tick creates the room for the players that it matched, takes them
\* off the queue and broadcasts match_found
tickCreates(t) ==
  /\ isAt(t, "matchmaking_check", "createMatchedRoom")
  /\ \E roomCode \in {r \in {"ROOM01", "ROOM02"} : r \notin DOMAIN roomStore} :
       LET matched == tasks[t].origin
           made    == createMatchedRoom(roomStore, roomSpectators, matchmakingQueue,
                                        matchmakingPlayer, matched, roomCode)
           left(p) == p \in DOMAIN made.player
       IN  /\ roomStore' = made.store
           /\ matchmakingQueue' = made.queue
           /\ matchmakingPlayer' = made.player
           /\ enqueueOrder' = SelectSeq(enqueueOrder, left)
           /\ lastEvent' = [Event("match_found", made.roomCode,
                                   matched[1].playerId) EXCEPT
                              !.success = (made.error = ""), !.error = made.error,
                              !.players = [i \in 1..Len(matched) |->
                                             matched[i].playerId]]
  /\ tasks' = [tasks EXCEPT ![t].pc = "done"]
  /\ UNCHANGED <<playerSessions, gameStore, roomSpectators, disconnectionTimers,
                 pendingRoll, turnSixes, steps, drops, clock>>

InitMatchRace ==
  /\ gameStore = <<>>
  /\ roomStore = <<>>
  /\ roomSpectators = <<>>
  /\ disconnectionTimers = <<>>
  /\ lastEvent = Event("server_started", "", "")
  /\ pendingRoll = NoRoll
  /\ turnSixes = NoSixes
  /\ steps = 0
  /\ drops = 0
  /\ \E queued \in SUBSET {"A", "B", "C"} :
       \E preferred \in [queued -> {2, 3}], timestamps \in [queued -> 0..MaxClock] :
         /\ matchmakingQueue = timestamps
         /\ matchmakingPlayer =
              [p \in queued |-> [playerId |-> p, playerName |-> "name",
                                 preferredPlayers |-> preferred[p],
                                 timestamp |-> timestamps[p]]]
         /\ clock = maxOf({timestamps[p] : p \in queued})
         /\ enqueueOrder \in EnqueueOrders(timestamps)
  /\ playerSessions = <<>>
  /\ tasks = <<>>

NextMatchRace ==
  \/ tickFinds
  \/ \E t \in DOMAIN tasks : tickCreates(t)
  \/ \E playerId \in {"A", "B", "C"} : handleLeaveMatchmaking(playerId)

SpecMatchRace == InitMatchRace /\ [][NextMatchRace]_vars

----------------------------------------------------------------------------
(* Turn after turn without a bound on their number: the player whose turn  *)
(* it is rolls and moves, players drop and their grace timers expire. The  *)
(* games are near their end, so that the states are few.                   *)

\* lateBoard: every colour in play has three tokens home and one token on
\* its home stretch
lateBoard(k) ==
  [c \in PlayerColor |->
     CASE c = RED   -> <<56, 56, 56, k>>
       [] c = BLUE  -> <<56, 56, 56, 55>>
       [] c = GREEN -> <<56, 56, 56, 53>>
       [] OTHER     -> allInBase]

\* roll_dice of the player whose turn it is, accepted by rollDice
rollsInTurn(random) ==
  \E playerId \in {game.players[game.currentPlayerIndex + 1].playerId} :
  \E result \in {rollDice(gameStore, ROOM, playerId, random)} :
      /\ ~isSpectator(roomSpectators, ROOM, playerId)
      /\ result.success
      /\ gameStore' = result.store
      /\ lastEvent' = [Event("roll_dice", ROOM, playerId) EXCEPT
                         !.success = TRUE, !.diceValue = result.diceValue,
                         !.skipTurn = result.skipTurn]
      /\ pendingRoll' = IF result.skipTurn THEN NoRoll
                        ELSE [playerId |-> playerId, diceValue |-> result.diceValue]
      /\ turnSixes' = IF result.diceValue # 6 \/ result.skipTurn THEN NoSixes
                      ELSE [playerId |-> playerId,
                            count |-> IF turnSixes.playerId = playerId
                                      THEN turnSixes.count + 1 ELSE 1]
      /\ UNCHANGED <<queueVars, playerSessions, tasks, roomStore, roomSpectators,
                     disconnectionTimers, steps, drops>>

\* move_token of the player whose turn it is, accepted by moveToken, with
\* the turn switch of the handler
movesInTurn(tokenId, targetPositionId) ==
  \E playerId \in {game.players[game.currentPlayerIndex + 1].playerId} :
  \E result \in {moveToken(gameStore, ROOM, playerId, tokenId, targetPositionId)} :
  \E reloaded \in {getGameState(result.store, ROOM)} :
      /\ ~isSpectator(roomSpectators, ROOM, playerId)
      /\ result.success
      /\ gameStore' =
           IF reloaded # <<>> /\ ~result.extraTurn /\ reloaded[1].phase # FINISHED
           THEN switchTurn(result.store, ROOM)
           ELSE result.store
      /\ lastEvent' = [Event("move_token", ROOM, playerId) EXCEPT
                         !.tokenId = tokenId, !.targetPositionId = targetPositionId,
                         !.success = TRUE,
                         !.diceValue = game.diceValue,
                         !.fromPosition = result.fromPosition,
                         !.capturedTokenId = result.capturedTokenId,
                         !.extraTurn = result.extraTurn]
      /\ pendingRoll' = NoRoll
      /\ UNCHANGED <<queueVars, playerSessions, tasks, roomStore, roomSpectators,
                     disconnectionTimers, turnSixes, steps, drops>>

InitFair ==
  /\ \E n \in {2, 3}, k \in {50, 52} :
       gameStore = saveGameState(<<>>, gameInProgress(n, lateBoard(k), 0))
  /\ roomStore = [r \in {ROOM} |-> startedRoom(r, gameStore[r].players)]
  /\ roomSpectators = <<>>
  /\ disconnectionTimers = <<>>
  /\ lastEvent = Event("game_started", ROOM, "")
  /\ pendingRoll = NoRoll
  /\ turnSixes = NoSixes
  /\ steps = 0
  /\ drops = 0
  /\ NoMatchmaking
  /\ playerSessions = joinedSessions(roomStore)
  /\ tasks = <<>>

someRoll == \E random \in DiceFaces : rollsInTurn(random)

rollBelowSix == \E random \in DiceFaces \ {6} : rollsInTurn(random)

someMove ==
  /\ game.diceValue # null
  /\ \E m \in TurnIntents : movesInTurn(m.tokenId, m.target)

someDrop ==
  /\ drops < MaxDrops
  /\ \E p \in PlayerIds : handleDisconnect(ROOM, p)

someExpiry == \E timer \in DOMAIN tasks : graceTimerExpires(timer)

NextFair ==
  \/ someRoll
  \/ someMove
  \/ someDrop
  \/ someExpiry

\* The current player always eventually submits an accepted roll and, in
\* phase MOVING, a legal move; the dice eventually shows a face below 6; a
\* timer that was set fires.
SpecFair ==
  /\ InitFair
  /\ [][NextFair]_vars
  /\ WF_vars(someRoll)
  /\ SF_vars(rollBelowSix)
  /\ WF_vars(someMove)
  /\ WF_vars(someExpiry)

----------------------------------------------------------------------------
(* Properties *)

CurrentPlayer == game.players[game.currentPlayerIndex + 1]

\* The step just taken processed a roll_dice or move_token intent for the room
IsGameIntent(e) == e.op \in {"roll_dice", "move_token"} /\ e.roomCode = ROOM

\* The token of the current player's colour with this id, as stored
OwnToken(tokenId) ==
  LET own == game.tokenPositions[CurrentPlayer.color]
  IN  own[CHOOSE k \in 1..Len(own) : own[k].tokenId = tokenId]

IsOwnToken(tokenId) ==
  \E k \in 1..4 : game.tokenPositions[CurrentPlayer.color][k].tokenId = tokenId

\* C1: a roll or move requested by a player of the game other than the one
\* at currentPlayerIndex is rejected with 'Not your turn' and the stored
\* game state is left as it was.
C1_OnlyCurrentPlayerActs ==
  [][\A p \in PlayerIds \ {CurrentPlayer.playerId} :
       (IsGameIntent(lastEvent') /\ lastEvent'.playerId = p)
         => /\ ~lastEvent'.success
            /\ lastEvent'.error = "Not your turn"
            /\ gameStore' = gameStore]_vars

\* C1 witness: a player moved out of turn while a dice value was stored
C1_Witness ==
  /\ lastEvent.op = "move_token" /\ lastEvent.roomCode = ROOM
  /\ lastEvent.playerId \in PlayerIds \ {CurrentPlayer.playerId}
  /\ lastEvent.error = "Not your turn"
  /\ game.phase = MOVING

\* C3: a move of a movable own token whose supplied target differs from the
\* target recomputed from the stored position and the stored dice is
\* rejected with 'Invalid target position' and changes nothing.
C3_TargetMustMatch ==
  [][LET e  == lastEvent'
         me == CurrentPlayer
     IN  (/\ e.op = "move_token" /\ e.roomCode = ROOM
          /\ e.playerId = me.playerId
          /\ game.phase = MOVING /\ game.diceValue # null
          /\ IsOwnToken(e.tokenId)
          /\ canMoveToken(OwnToken(e.tokenId).positionId, game.diceValue, me.color).valid
          /\ e.targetPositionId #
               canMoveToken(OwnToken(e.tokenId).positionId, game.diceValue,
                            me.color).targetPosition)
           => /\ ~e.success
              /\ e.error = "Invalid target position"
              /\ gameStore' = gameStore]_vars

\* C3 witness: the rejected target is the legal target of the same token for
\* another dice value
C3_Witness ==
  /\ lastEvent.op = "move_token" /\ lastEvent.error = "Invalid target position"
  /\ game.phase = MOVING
  /\ IsOwnToken(lastEvent.tokenId)
  /\ \E d \in (1..6) \ {game.diceValue} :
       LET v == canMoveToken(OwnToken(lastEvent.tokenId).positionId, d, CurrentPlayer.color)
       IN  v.valid /\ v.targetPosition = lastEvent.targetPositionId


\* The index of the next player with rank 0 after index from, cyclically, in
\* a player list; from itself when no other player has rank 0
NextWithRankZero(players, from) ==
  LET n == Len(players)
      ahead == {k \in 1..(n - 1) : players[((from + k) % n) + 1].rank = 0}
  IN  IF ahead = {} THEN from
      ELSE (from + (CHOOSE k \in ahead : \A j \in ahead : k <= j)) % n

\* C2: a roll is accepted only in phase ROLLING and a move only in phase
\* MOVING with a stored dice; every accepted move is made by the player
\* whose accepted, non-skipped roll came last, with no accepted roll or move
\* in between, and uses the dice value that roll stored.
C2_MoveFollowsOwnRoll ==
  [][LET e == lastEvent'
     IN  /\ (e.op = "roll_dice" /\ e.roomCode = ROOM /\ e.success)
              => game.phase = ROLLING
         /\ (e.op = "move_token" /\ e.roomCode = ROOM /\ e.success)
              => /\ game.phase = MOVING /\ game.diceValue # null
                 /\ pendingRoll.playerId = e.playerId
                 /\ pendingRoll.diceValue = game.diceValue]_vars

\* C4: the third six in a row of one player's turn is answered skipTurn,
\* the turn passes to the next player with rank 0, and the stored state has
\* consecutiveSixes 0, no dice and phase ROLLING; no move is ever accepted
\* from a player whose last roll was a third six.
C4_ThirdSixForfeits ==
  [][LET e == lastEvent'
     IN  /\ (/\ e.op = "roll_dice" /\ e.roomCode = ROOM /\ e.success
             /\ e.diceValue = 6
             /\ turnSixes.playerId = e.playerId /\ turnSixes.count = 2)
              => /\ e.skipTurn
                 /\ game'.consecutiveSixes = 0
                 /\ game'.diceValue = null
                 /\ game'.phase = ROLLING
                 /\ game'.currentPlayerIndex =
                      NextWithRankZero(game.players, game.currentPlayerIndex)
         /\ (e.op = "move_token" /\ e.success /\ turnSixes.playerId = e.playerId)
              => turnSixes.count < 3]_vars

\* C4 witness: a player's third six in a row, rolled after two moves, was
\* skipped and the turn went to another player
C4_Witness ==
  /\ lastEvent.op = "roll_dice" /\ lastEvent.success
  /\ lastEvent.diceValue = 6 /\ lastEvent.sixesInRow = 3 /\ lastEvent.skipTurn
  /\ CurrentPlayer.playerId # lastEvent.playerId
  /\ game.phase = ROLLING /\ game.consecutiveSixes = 0

\* C5 as stated: after a six that is not the forfeiting third one, and after
\* the move made with it, the state has no dice, phase ROLLING and the same
\* currentPlayerIndex, whether or not a token could move.
C5_SixAlwaysKeepsTurn ==
  [][LET e == lastEvent'
     IN  /\ (/\ e.op = "roll_dice" /\ e.roomCode = ROOM /\ e.success
             /\ e.diceValue = 6 /\ game.consecutiveSixes < 2
             /\ e.skipTurn)
              => /\ game'.diceValue = null /\ game'.phase = ROLLING
                 /\ game'.currentPlayerIndex = game.currentPlayerIndex
         /\ (/\ e.op = "move_token" /\ e.roomCode = ROOM /\ e.success
             /\ game.diceValue = 6)
              => /\ game'.diceValue = null /\ game'.phase = ROLLING
                 /\ game'.currentPlayerIndex = game.currentPlayerIndex]_vars

\* C5 amended: a six that is not the forfeiting third one keeps the turn
\* when the roller has a token that can move with it: the roll stores the 6
\* in phase MOVING with the same currentPlayerIndex, and after the move the
\* state has no dice, phase ROLLING and the same currentPlayerIndex.  When
\* no token can move, the roll is skipped and the turn passes on.
C5_SixKeepsTurnIfMovable ==
  [][LET e  == lastEvent'
         me == CurrentPlayer
     IN  /\ (/\ e.op = "roll_dice" /\ e.roomCode = ROOM /\ e.success
             /\ e.diceValue = 6 /\ game.consecutiveSixes < 2)
              => IF \E k \in 1..4 :
                      canMoveToken(game.tokenPositions[me.color][k].positionId,
                                   6, me.color).valid
                 THEN /\ ~e.skipTurn
                      /\ game'.diceValue = 6 /\ game'.phase = MOVING
                      /\ game'.currentPlayerIndex = game.currentPlayerIndex
                 ELSE /\ e.skipTurn
                      /\ game'.diceValue = null /\ game'.phase = ROLLING
                      /\ game'.currentPlayerIndex =
                           NextWithRankZero(game.players, game.currentPlayerIndex)
         /\ (/\ e.op = "move_token" /\ e.roomCode = ROOM /\ e.success
             /\ game.diceValue = 6)
              => /\ game'.diceValue = null /\ game'.phase = ROLLING
                 /\ game'.currentPlayerIndex = game.currentPlayerIndex]_vars

\* C5 witness: a move made with a six has been processed while another
\* player with rank 0 was waiting
C5_Witness ==
  /\ lastEvent.op = "move_token" /\ lastEvent.success /\ lastEvent.diceValue = 6
  /\ CurrentPlayer.playerId = lastEvent.playerId
  /\ \E i \in 1..Len(game.players) :
       game.players[i].rank = 0 /\ game.players[i].playerId # lastEvent.playerId


\* The eight safe spots, as a set of cells
SafeCells ==
  { <<"B","0","4">>, <<"B","2","3">>, <<"R","2","2">>, <<"R","1","0">>,
    <<"G","0","2">>, <<"G","2","1">>, <<"Y","3","0">>, <<"Y","4","2">> }

Colors == DOMAIN game.tokenPositions

\* Token k of colour c stood on cell before the step and stands elsewhere after
Displaced(c, k) ==
  game'.tokenPositions[c][k].positionId # game.tokenPositions[c][k].positionId

IsAcceptedMove(e) == e.op = "move_token" /\ e.roomCode = ROOM /\ e.success

C7_SafeSpotNeverCaptures ==
  [][LET e == lastEvent'
         me == CurrentPlayer
     IN  (IsAcceptedMove(e) /\ e.targetPositionId \in SafeCells)
           => /\ \A c \in Colors \ {me.color} : \A k \in 1..4 : ~Displaced(c, k)
              /\ e.capturedTokenId = NoToken
              /\ e.extraTurn = (game.diceValue = 6)]_vars

\* C7 witness: a token has just landed on a safe spot on which a token of
\* another colour stands
C7_Witness ==
  /\ lastEvent.op = "move_token" /\ lastEvent.success
  /\ lastEvent.targetPositionId \in SafeCells
  /\ \E c \in Colors, d \in Colors : \E k \in 1..4, j \in 1..4 :
       /\ c # d
       /\ game.tokenPositions[c][k].tokenId = lastEvent.tokenId
       /\ game.tokenPositions[c][k].positionId = lastEvent.targetPositionId
       /\ game.tokenPositions[d][j].positionId = lastEvent.targetPositionId

\* C8: an accepted move onto a cell that is not a safe spot sends every
\* token of another colour on that cell to the base slot of its own colour
\* with its own number, displaces no other token, and when it captured the
\* mover keeps the turn.
C8_CaptureSendsAllToBase ==
  [][LET e == lastEvent'
         me == CurrentPlayer
         target == e.targetPositionId
         hit(c, k) == c # me.color /\ game.tokenPositions[c][k].positionId = target
     IN  (IsAcceptedMove(e) /\ target \notin SafeCells)
           => /\ \A c \in Colors : \A k \in 1..4 :
                   IF hit(c, k)
                   THEN game'.tokenPositions[c][k] =
                          [tokenId |-> game.tokenPositions[c][k].tokenId,
                           positionId |-> BASE_POSITIONS[c][k]]
                   ELSE IF c = me.color /\ game.tokenPositions[c][k].tokenId = e.tokenId
                        THEN game'.tokenPositions[c][k].positionId = target
                        ELSE game'.tokenPositions[c][k] = game.tokenPositions[c][k]
              /\ (\E c \in Colors : \E k \in 1..4 : hit(c, k))
                   => /\ e.extraTurn
                      /\ e.capturedTokenId # NoToken
                      /\ game'.currentPlayerIndex = game.currentPlayerIndex
                      /\ game'.phase = ROLLING]_vars

\* C8 witness: one move with a dice other than 6 has sent two stacked red
\* tokens back to their base slots
C8_Witness ==
  /\ lastEvent.op = "move_token" /\ lastEvent.success /\ lastEvent.diceValue # 6
  /\ lastEvent.targetPositionId = <<"G","0","5">>
  /\ lastEvent.extraTurn
  /\ game.tokenPositions[RED][1].positionId = <<"R","1">>
  /\ game.tokenPositions[RED][2].positionId = <<"R","2">>
  /\ game.tokenPositions[BLUE][1].positionId = <<"G","0","5">>


\* The cells a token of colour c may stand on: the four base slots, the
\* cells of the colour's path, and the home cell
CellsOf(c) ==
  {BASE_POSITIONS[c][k] : k \in 1..4}
    \cup {TOKEN_PATHS[c][i] : i \in 1..Len(TOKEN_PATHS[c])}
    \cup {HOME_POSITIONS[c]}

FourTokens(c) ==
  /\ c \in DOMAIN game.tokenPositions
  /\ Len(game.tokenPositions[c]) = 4
  /\ \A k \in 1..4 :
       /\ game.tokenPositions[c][k].tokenId = <<toUpperCase(c[1]), "T", toString(k)>>
       /\ game.tokenPositions[c][k].positionId \in CellsOf(c)
  /\ \A j, k \in 1..4 :
       j # k => game.tokenPositions[c][j].tokenId # game.tokenPositions[c][k].tokenId

\* C9: for each colour of a player in the game, tokenPositions holds exactly
\* 4 tokens with pairwise distinct ids, each on a base slot, a path cell or
\* the home cell of its colour, whatever rolls, moves, captures, turn
\* switches and removals have happened.
C9_FourTokensPerColour ==
  \A i \in 1..Len(game.players) : FourTokens(game.players[i].color)

\* C9 witness: after a player was removed, a move has captured a token and
\* the captured token stands on a base slot
C9_Witness ==
  /\ lastEvent.op = "move_token" /\ lastEvent.success
  /\ lastEvent.capturedTokenId # NoToken
  /\ Len(game.players) < Cardinality(DOMAIN game.tokenPositions)
  /\ \E c \in DOMAIN game.tokenPositions : \E k \in 1..Len(game.tokenPositions[c]) :
       /\ game.tokenPositions[c][k].tokenId = lastEvent.capturedTokenId
       /\ game.tokenPositions[c][k].positionId = BASE_POSITIONS[c][k]

Finished == {i \in 1..Len(game.players) : game.players[i].rank > 0}

\* C10: the player at currentPlayerIndex has rank 0 unless all but one of
\* the players have finished.
C10_CurrentPlayerUnranked ==
  Cardinality(Finished) < Len(game.players) - 1 => CurrentPlayer.rank = 0


\* The rank the rankings list records for a player, 0 when it has no entry
RankingOf(gameState, playerId) ==
  LET found == {k \in 1..Len(gameState.rankings) :
                  gameState.rankings[k].playerId = playerId}
  IN  IF found = {} THEN 0 ELSE gameState.rankings[CHOOSE k \in found : TRUE].rank

RankingsWellFormed(gameState) ==
  /\ \A j, k \in 1..Len(gameState.rankings) :
       j # k => gameState.rankings[j].playerId # gameState.rankings[k].playerId
  /\ \A k \in 1..Len(gameState.rankings) : gameState.rankings[k].rank = k
  /\ \A i \in 1..Len(gameState.players) :
       gameState.players[i].rank = RankingOf(gameState, gameState.players[i].playerId)

\* C11: a win is recorded once and in finish order: rankings names no player
\* twice, its k-th entry has rank k, every player's rank equals its rankings
\* entry (0 without one), an assigned rank never changes, and a player who
\* has a rank makes no further successful move.
C11_WinRecordedOnce ==
  [][LET e == lastEvent'
     IN  /\ RankingsWellFormed(game) /\ RankingsWellFormed(game')
         /\ \A i \in 1..Len(game.players), j \in 1..Len(game'.players) :
              (game.players[i].playerId = game'.players[j].playerId
                 /\ game.players[i].rank > 0)
                => game'.players[j].rank = game.players[i].rank
         /\ Len(game'.rankings) >= Len(game.rankings)
         /\ SubSeq(game'.rankings, 1, Len(game.rankings)) = game.rankings
         /\ IsAcceptedMove(e)
              => \A i \in 1..Len(game.players) :
                   game.players[i].playerId = e.playerId => game.players[i].rank = 0]_vars

\* C11 witness: the second player has just finished after the first, the
\* rankings list holding both in finish order
C11_Witness ==
  /\ lastEvent.op = "move_token" /\ lastEvent.success
  /\ Len(game.rankings) >= 2
  /\ game.rankings[2].playerId = lastEvent.playerId
  /\ game.rankings[1].playerId # lastEvent.playerId


\* C12: the persisted phase is FINISHED exactly when all but one player have
\* finished (that last player holding the auto-assigned rank N), and never
\* before.
C12_FinishedIffOneLeft ==
  (game.phase = FINISHED) <=> (Cardinality(Finished) >= Len(game.players) - 1)


\* C13: once all but one player have finished, every later roll_dice and
\* move_token is rejected and the game state never changes again.
C13_FinishedIsTerminal ==
  [][LET e == lastEvent'
     IN  Cardinality(Finished) >= Len(game.players) - 1
           => /\ game' = game
              /\ IsGameIntent(e) => ~e.success]_vars


\* C14: switchTurn moves the turn to the first player after the current
\* one, in cyclic order, that has rank 0; it never lands on a finished
\* player while a player with rank 0 remains, and leaves the index unchanged
\* only when no other player has rank 0; dice, phase and six counter are
\* reset.
C14_SwitchTurnSkipsFinished ==
  [][LET e == lastEvent'
         n == Len(game.players)
         from == game.currentPlayerIndex
         to == game'.currentPlayerIndex
         others == {i \in 0..(n - 1) : i # from /\ game.players[i + 1].rank = 0}
     IN  e.op = "switch_turn"
           => /\ to = NextWithRankZero(game.players, from)
              /\ (\E i \in 1..n : game.players[i].rank = 0)
                   => game'.players[to + 1].rank = 0
              /\ (to = from) <=> (others = {})
              /\ \A k \in 1..(n - 1) :
                   (\A j \in 1..k : game.players[((from + j) % n) + 1].rank > 0)
                     => to # (from + k) % n
              /\ game'.players = game.players
              /\ game'.diceValue = null /\ game'.phase = ROLLING
              /\ game'.consecutiveSixes = 0]_vars

\* C14 witness: the turn has just passed over a finished player to a player
\* with rank 0 two seats further on
C14_Witness ==
  /\ lastEvent.op = "switch_turn"
  /\ Len(game.players) >= 3
  /\ \E i \in 0..(Len(game.players) - 1) :
       /\ game.players[i + 1].playerId = lastEvent.playerId
       /\ game.players[((i + 1) % Len(game.players)) + 1].rank > 0
       /\ game.currentPlayerIndex = (i + 2) % Len(game.players)
       /\ CurrentPlayer.rank = 0


\* The index of a cell on a colour's path, -1 when it is not on it
PathIndex(c, cell) ==
  LET at == {i \in 0..(Len(TOKEN_PATHS[c]) - 1) : TOKEN_PATHS[c][i + 1] = cell}
  IN  IF at = {} THEN -1 ELSE CHOOSE i \in at : \A j \in at : i <= j

AllBaseSlots == UNION {{BASE_POSITIONS[c][k] : k \in 1..4} : c \in PlayerColor}

\* C15: canMoveToken follows the reference rule: a token on a base slot
\* moves iff the dice is 6, to the colour's start cell; a token at index i
\* of its colour's path moves iff i + dice is below the path length, to
\* path[i + dice]; a token on home never moves.
C15_CanMoveMatchesRule ==
  lastEvent.op = "can_move_token"
    => LET c    == colorOf(lastEvent.playerId)
           pos  == lastEvent.fromPosition
           d    == lastEvent.diceValue
           path == TOKEN_PATHS[c]
           i    == PathIndex(c, pos)
       IN  /\ pos \in AllBaseSlots
                => /\ lastEvent.success <=> (d = 6)
                   /\ lastEvent.success
                        => lastEvent.targetPositionId = START_POSITIONS[c]
           /\ (pos \notin AllBaseSlots /\ i # -1)
                => /\ lastEvent.success <=> (i + d < Len(path))
                   /\ lastEvent.success
                        => lastEvent.targetPositionId = path[i + d + 1]
           /\ pos = HOME_POSITIONS[c] => ~lastEvent.success

\* C15 witness: a token two cells before home was refused a 3
C15_Witness ==
  /\ lastEvent.op = "can_move_token"
  /\ lastEvent.diceValue = 3
  /\ PathIndex(colorOf(lastEvent.playerId), lastEvent.fromPosition)
       = Len(TOKEN_PATHS[colorOf(lastEvent.playerId)]) - 3
  /\ ~lastEvent.success
  /\ lastEvent.error = "Move exceeds path length"


\* The game that a start leaves for a room: one player per member in list
\* order with the colours RED, BLUE, GREEN, YELLOW in that order, four
\* tokens per colour on the colour's base slots, and the first player to roll
IsFreshGameOf(gameState, room) ==
  /\ gameState.roomCode = room.roomCode
  /\ Len(gameState.players) = Len(room.players)
  /\ \A i \in 1..Len(room.players) :
       /\ gameState.players[i].playerId = room.players[i]
       /\ gameState.players[i].color = <<RED, BLUE, GREEN, YELLOW>>[i]
       /\ gameState.players[i].rank = 0
  /\ \A i, j \in 1..Len(gameState.players) :
       i # j => gameState.players[i].color # gameState.players[j].color
  /\ DOMAIN gameState.tokenPositions
       = {gameState.players[i].color : i \in 1..Len(gameState.players)}
  /\ \A c \in DOMAIN gameState.tokenPositions :
       /\ Len(gameState.tokenPositions[c]) = 4
       /\ \A k \in 1..4 :
            gameState.tokenPositions[c][k].positionId = BASE_POSITIONS[c][k]
  /\ gameState.phase = ROLLING
  /\ gameState.currentPlayerIndex = 0
  /\ gameState.diceValue = null
  /\ gameState.consecutiveSixes = 0
  /\ gameState.rankings = <<>>

C17_JoinIsIdempotent ==
  [][LET e == lastEvent'
     IN  (e.op = "join_room" /\ e.roomCode \in DOMAIN roomStore
            /\ includes(roomStore[e.roomCode].players, e.playerId))
           => /\ e.success
              /\ roomStore' = roomStore]_vars


RoomWellFormed(room) ==
  /\ \A i, j \in 1..Len(room.players) : i # j => room.players[i] # room.players[j]
  /\ 1 <= Len(room.players)
  /\ Len(room.players) <= room.maxPlayers
  /\ room.maxPlayers \in 2..4

C19_HostIsAMember ==
  [][LET e == lastEvent'
         r == e.roomCode
         stays(id) == id # e.playerId
     IN  /\ \A c \in DOMAIN roomStore' :
              includes(roomStore'[c].players, roomStore'[c].hostId)
         /\ (e.op = "leave_room" /\ r \in DOMAIN roomStore)
              => IF ~includes(roomStore[r].players, e.playerId)
                 THEN roomStore' = roomStore
                 ELSE IF Len(roomStore[r].players) = 1
                 THEN r \notin DOMAIN roomStore'
                 ELSE /\ r \in DOMAIN roomStore'
                      /\ roomStore'[r].players = SelectSeq(roomStore[r].players, stays)
                      /\ roomStore'[r].hostId =
                           IF roomStore[r].hostId = e.playerId
                           THEN roomStore'[r].players[1]
                           ELSE roomStore[r].hostId]_vars

\* C19 witness: the host p1 has just left a room of three and p2, the first
\* of the remaining players, is host
C19_Witness ==
  /\ lastEvent.op = "leave_room" /\ lastEvent.success /\ lastEvent.playerId = "p1"
  /\ ROOM \in DOMAIN roomStore
  /\ roomStore[ROOM].players = <<"p2", "p3">>
  /\ roomStore[ROOM].hostId = "p2"


\* C20: in every stored room the spectators and the players are disjoint:
\* no player id is both a player and a spectator of the same room.
C20_SpectatorsAreNotPlayers ==
  \A r \in DOMAIN roomStore \cap DOMAIN roomSpectators :
    \A i \in 1..Len(roomStore[r].players), j \in 1..Len(roomSpectators[r]) :
      roomStore[r].players[i] # roomSpectators[r][j]

----------------------------------------------------------------------------
(* Matchmaking *)

\* The group that the last scheduler run matched
IsMatchFound(e) == e.op = "match_found" /\ e.success

\* C21 (as stated): every player of a matched group of size N asked for
\* exactly N players.
C21_GroupSizeIsPreferredSize ==
  [][IsMatchFound(lastEvent') =>
       \A i \in 1..Len(lastEvent'.players) :
         matchmakingPlayer[lastEvent'.players[i]].preferredPlayers
           = Len(lastEvent'.players)]_vars

\* C21 (amended): every player of a matched group of size N asked for N
\* players or more, and the group has 2, 3 or 4 distinct players.
C21_GroupSizeWithinPreference ==
  [][IsMatchFound(lastEvent') =>
       LET group == lastEvent'.players
       IN  /\ Len(group) \in {2, 3, 4}
           /\ \A i, j \in 1..Len(group) : i # j => group[i] # group[j]
           /\ \A i \in 1..Len(group) :
                /\ group[i] \in DOMAIN matchmakingPlayer
                /\ matchmakingPlayer[group[i]].preferredPlayers >= Len(group)]_vars

\* A group of three was matched while a fourth player stays queued
C21_Witness ==
  /\ IsMatchFound(lastEvent)
  /\ Len(lastEvent.players) = 3
  /\ zCard(matchmakingQueue) = 1

\* C22: the matched group is the first N, in the order they were added, of
\* the queued players that the filter lets through for N; the room created
\* has the first of them as host, exactly the group as players in that
\* order and maxPlayers N, and no matched player stays queued.
C22_MatchIsFifoRoom ==
  [][IsMatchFound(lastEvent') =>
       LET group    == lastEvent'.players
           N        == Len(group)
           asked(p) == matchmakingPlayer[p].preferredPlayers >= N
           oldest   == SelectSeq(enqueueOrder, asked)
       IN  /\ Len(oldest) >= N
           /\ group = SubSeq(oldest, 1, N)
           /\ lastEvent'.roomCode \in DOMAIN roomStore' \ DOMAIN roomStore
           /\ roomStore'[lastEvent'.roomCode].hostId = group[1]
           /\ roomStore'[lastEvent'.roomCode].players = group
           /\ roomStore'[lastEvent'.roomCode].maxPlayers = N
           /\ \A i \in 1..N : /\ group[i] \notin DOMAIN matchmakingQueue'
                              /\ group[i] \notin DOMAIN matchmakingPlayer']_vars

\* C23: the queue holds each player once, with the entry stored under the
\* player's id; a join_matchmaking of a queued player succeeds and leaves
\* the queue as it was; a join_matchmaking with a preferred size other than
\* 2, 3, 4 is refused and leaves the queue as it was.
C23_QueueHoldsPlayerOnce ==
  [][/\ LET order == zRange(matchmakingQueue')
        IN  /\ \A i, j \in 1..Len(order) : i # j => order[i] # order[j]
            /\ {order[i] : i \in 1..Len(order)} = DOMAIN matchmakingPlayer'
            /\ Len(order) = Len(enqueueOrder')
            /\ \A p \in DOMAIN matchmakingPlayer' :
                 /\ matchmakingPlayer'[p].playerId = p
                 /\ matchmakingPlayer'[p].timestamp = matchmakingQueue'[p]
                 /\ matchmakingPlayer'[p].preferredPlayers \in {2, 3, 4}
     /\ lastEvent'.op = "join_matchmaking" /\ lastEvent'.playerId \in DOMAIN matchmakingPlayer
          /\ lastEvent'.error # "Player ID and name are required"
          => /\ lastEvent'.error \in {"", "Preferred players must be 2, 3, or 4"}
             /\ matchmakingQueue' = matchmakingQueue
             /\ matchmakingPlayer' = matchmakingPlayer
             /\ enqueueOrder' = enqueueOrder
     /\ lastEvent'.op = "join_matchmaking"
          /\ lastEvent'.error = "Preferred players must be 2, 3, or 4"
          => /\ ~lastEvent'.success
             /\ matchmakingQueue' = matchmakingQueue
             /\ matchmakingPlayer' = matchmakingPlayer]_vars

\* The player added first joined again while another player was queued
\* behind, and the two entries are as they were
C23_Witness ==
  /\ lastEvent.op = "join_matchmaking"
  /\ lastEvent.success
  /\ Len(enqueueOrder) = 2
  /\ lastEvent.playerId = enqueueOrder[1]
  /\ matchmakingPlayer[enqueueOrder[1]].timestamp
       < matchmakingPlayer[enqueueOrder[2]].timestamp

----------------------------------------------------------------------------
(* Reconnection *)

\* The grace timers of a player that wait in the event loop
PendingTimers(pending, playerId) ==
  {t \in DOMAIN pending : /\ pending[t].op = "grace_timer"
                          /\ pending[t].pc = "scheduled"
                          /\ pending[t].playerId = playerId}

\* The 0-based index of a player in GameState.players, -1 when absent
PlayerIndex(gameState, playerId) ==
  LET at == {i \in 1..Len(gameState.players) :
               gameState.players[i].playerId = playerId}
  IN  IF at = {} THEN -1 ELSE (CHOOSE i \in at : \A j \in at : i <= j) - 1

\* C24: an accepted reconnect_player leaves the player CONNECTED at the index
\* the player had, and no grace timer of the player is left to run out.
C24_ReconnectCancelsTimer ==
  [][lastEvent'.op = "reconnect_player" /\ lastEvent'.success =>
       LET p == lastEvent'.playerId
           r == lastEvent'.roomCode
       IN  /\ r \in DOMAIN gameStore /\ PlayerIndex(gameStore[r], p) # -1 =>
                /\ PlayerIndex(gameStore'[r], p) = PlayerIndex(gameStore[r], p)
                /\ gameStore'[r].players[PlayerIndex(gameStore'[r], p) + 1]
                     .connectionStatus = CONNECTED
           /\ PendingTimers(tasks', p) = {}]_vars

\* C25: a reconnect_player that follows the expiry of the player's grace
\* timer for that room is refused for want of a session, and writes nothing.
C25_NoReconnectAfterExpiry ==
  [][/\ lastEvent.op = "grace_expired"
     /\ lastEvent'.op = "reconnect_player"
     /\ lastEvent'.playerId = lastEvent.playerId
     /\ lastEvent'.roomCode = lastEvent.roomCode
     => /\ ~lastEvent'.success
        /\ lastEvent'.error = "No active session found for this room"
        /\ gameStore' = gameStore
        /\ playerSessions' = playerSessions
        /\ tasks' = tasks
        /\ disconnectionTimers' = disconnectionTimers]_vars

\* C27: when a grace timer has run out, the stored game holds the other
\* players as they were and in their order, and not the player; the current
\* index is the index of one of them; the player's session is gone and the
\* permanent-disconnect callback was called.
C27_ExpiryRemovesPlayer ==
  [][lastEvent'.op = "grace_expired" =>
       LET p == lastEvent'.playerId
           r == lastEvent'.roomCode
           others(q) == q.playerId # p
       IN  /\ lastEvent'.success
           /\ p \notin DOMAIN playerSessions'
           /\ r \in DOMAIN gameStore =>
                /\ r \in DOMAIN gameStore'
                /\ gameStore'[r].players = SelectSeq(gameStore[r].players, others)
                /\ Len(gameStore'[r].players) > 0 =>
                     gameStore'[r].currentPlayerIndex \in
                       0..(Len(gameStore'[r].players) - 1)]_vars

\* C26: at every moment a player has at most one grace timer that is still
\* waiting to fire: a disconnect of a player whose timer is waiting replaces
\* that timer.
C26_OnePendingTimerPerPlayer ==
  \A t \in DOMAIN tasks :
    Cardinality(PendingTimers(tasks, tasks[t].playerId)) <= 1

\* The player is in GameState.players of the room's stored game
InGame(store, roomCode, playerId) ==
  /\ roomCode \in DOMAIN store
  /\ PlayerIndex(store[roomCode], playerId) # -1

\* A removal of the player has saved the game state and is about to delete
\* the session
RemovalInFlight(pending, playerId) ==
  \E t \in DOMAIN pending : /\ pending[t].op = "grace_timer"
                            /\ pending[t].pc = "deleteSession"
                            /\ pending[t].playerId = playerId

\* C28: however the steps of a grace timer's expiry and of a reconnect_player
\* of the same player interleave, no success reply is sent for a player who
\* is not in GameState.players of the room's game, and once a removal has
\* finished no session is stored for a player who is not in GameState.players
\* of the session's room.
C28_ExpiryAndReconnectAreSerial ==
  [][/\ (/\ lastEvent'.op = "reconnect_player" /\ lastEvent'.success
         /\ lastEvent'.roomCode \in DOMAIN gameStore') =>
          InGame(gameStore', lastEvent'.roomCode, lastEvent'.playerId)
     /\ \A p \in DOMAIN playerSessions' :
          (/\ playerSessions'[p].roomCode \in DOMAIN gameStore'
           /\ ~RemovalInFlight(tasks', p)) =>
            InGame(gameStore', playerSessions'[p].roomCode, p)]_vars

\* The operations that have run to their end
Done(pending) == {t \in DOMAIN pending : pending[t].pc = "done"}

\* No operation is between two of its awaits
Quiet(pending) == \A t \in DOMAIN pending : pending[t].pc \in {"done", "scheduled"}

\* What an operation does to the store when nothing else runs during it
Serially(task, store) ==
  CASE task.op = "disconnect" ->
         updatePlayerConnectionStatus(store, task.roomCode, task.playerId, DISCONNECTED)
    [] task.op = "reconnect_player" ->
         updatePlayerConnectionStatus(store, task.roomCode, task.playerId, CONNECTED)
    [] task.op = "grace_timer" ->
         handlePermanentDisconnection(store, <<>>, task.playerId, task.roomCode).store
    [] task.op = "roll_dice" ->
         rollDice(store, task.roomCode, task.playerId, task.arg).store

\* C29: when two operations on one room have both completed, the stored
\* game state is the one that results from running the two one after the
\* other, in one of the two orders, from the state stored when the first of
\* them began.
C29_WritesAreSerialized ==
  (Quiet(tasks) /\ Cardinality(Done(tasks)) = 2) =>
    \E a, b \in Done(tasks) :
      /\ a # b
      /\ tasks[a].origin # <<>>
      /\ gameStore = Serially(tasks[b],
                       Serially(tasks[a], saveGameState(<<>>, tasks[a].origin[1])))

\* C30: a roll_dice or move_token that is answered with success = false,
\* whatever the reason, leaves every stored game state exactly as it was
\* before the call.
C30_FailureWritesNothing ==
  [][(lastEvent'.op \in {"roll_dice", "move_token"} /\ ~lastEvent'.success)
       => gameStore' = gameStore]_vars

\* C30 witness: the player whose turn it is rolled again while the dice of
\* the turn was stored, and was refused
C30_Witness ==
  /\ lastEvent.op = "roll_dice" /\ lastEvent.roomCode = ROOM
  /\ ~lastEvent.success
  /\ lastEvent.error = "Cannot roll dice in current phase"
  /\ lastEvent.playerId = CurrentPlayer.playerId
  /\ game.phase = MOVING /\ game.diceValue # null

\* C31: a roll_dice or move_token whose playerId is among the room's
\* spectators is rejected and leaves the game state as it was; and when a
\* socket of a spectator drops, the spectator is out of the room's spectators
\* at once, no grace timer is started and no game state is written.
C31_SpectatorsNeverAct ==
  [][LET e == lastEvent'
     IN  /\ (IsGameIntent(e) /\ isSpectator(roomSpectators, ROOM, e.playerId))
              => ~e.success /\ gameStore' = gameStore
         /\ (e.op = "disconnect" /\ drops' # drops
             /\ isSpectator(roomSpectators, e.roomCode, e.playerId))
              => /\ ~isSpectator(roomSpectators', e.roomCode, e.playerId)
                 /\ tasks' = tasks
                 /\ disconnectionTimers' = disconnectionTimers
                 /\ gameStore' = gameStore]_vars

\* The player at currentPlayerIndex can move a token with the stored dice
CurrentCanMove(gameState) ==
  /\ gameState.currentPlayerIndex < Len(gameState.players)
  /\ gameState.diceValue # null
  /\ checkValidMoves(gameState,
                     gameState.players[gameState.currentPlayerIndex + 1].color,
                     gameState.diceValue)

\* C32: no stored game state is stuck in phase MOVING: whenever the phase is
\* MOVING the player at currentPlayerIndex has a token that canMoveToken lets
\* move with the stored dice, and a roll answered with skipTurn stores phase
\* ROLLING, no dice and the turn at the next player with rank 0. This holds
\* across rolls, moves, turn switches and removals of disconnected players.
C32_NoStuckMoving ==
  [][/\ \A r \in DOMAIN gameStore' :
          gameStore'[r].phase = MOVING => CurrentCanMove(gameStore'[r])
     /\ (lastEvent'.op = "roll_dice" /\ lastEvent'.roomCode = ROOM
         /\ lastEvent'.success /\ lastEvent'.skipTurn)
          => /\ game'.phase = ROLLING
             /\ game'.diceValue = null
             /\ game'.currentPlayerIndex =
                  NextWithRankZero(game.players, game.currentPlayerIndex)]_vars

\* C33: the cleanup job deletes a room only if, when it is deleted, its
\* status is WAITING and it is older than the threshold; a room whose status
\* is PLAYING is never deleted by the job, however the job interleaves with
\* joins and game starts.
C33_SweepDeletesOnlyAbandoned ==
  [][\A r \in DOMAIN roomStore \ DOMAIN roomStore' :
       lastEvent'.op = "cleanup_rooms"
         => /\ roomStore[r].status = WAITING
            /\ clock - roomStore[r].createdAt > CLEANUP_AGE_MINUTES]_vars

\* C34: a game is initialised once: the status of a room changes only from
\* WAITING to PLAYING, and once a game state is stored for a room no
\* start_game or join_room replaces it: the token positions, the turn and
\* the rankings of a game in progress are never reset.
C34_GameInitialisedOnce ==
  [][/\ \A r \in DOMAIN roomStore \cap DOMAIN roomStore' :
          roomStore'[r].status # roomStore[r].status
            => roomStore[r].status = WAITING /\ roomStore'[r].status = PLAYING
     /\ \A r \in DOMAIN gameStore :
          lastEvent'.op \in {"start_game", "join_room"}
            => r \in DOMAIN gameStore' /\ gameStore'[r] = gameStore[r]]_vars

\* C35: a player whose move earned no extra turn does not roll again before
\* the turn has passed: no roll_dice of the mover is accepted while the
\* move_token handler of that player is between its moveToken save and its
\* switchTurn save, and the switchTurn save of a move never replaces a stored
\* dice value
MoveAwaitsSwitch(task) ==
  /\ task.op = "move_token"
  /\ task.pc \in {"getGameState", "switchTurn", "switchTurn.saveGameState"}
  /\ ~moved(task).extraTurn

C35_NoRollBeforeTurnPasses ==
  [][ /\ \A r \in DOMAIN tasks' \ DOMAIN tasks :
           tasks'[r].op = "roll_dice"
             => ~\E m \in DOMAIN tasks :
                   /\ MoveAwaitsSwitch(tasks[m])
                   /\ tasks[m].playerId = tasks'[r].playerId
                   /\ tasks[m].roomCode = tasks'[r].roomCode
      /\ lastEvent'.op = "turn_switched"
           => gameStore[lastEvent'.roomCode].diceValue = null ]_vars

\* C36: a grace-timer removal of a player other than the one whose turn it
\* is leaves the turn with the same player: the playerId at
\* currentPlayerIndex is the same before and after the removal
currentPlayerId(gameState) ==
  gameState.players[gameState.currentPlayerIndex + 1].playerId

C36_RemovalKeepsTheTurn ==
  [][ ( /\ lastEvent'.op = "grace_expired"
        /\ lastEvent'.roomCode \in DOMAIN gameStore
        /\ findPlayer(gameStore[lastEvent'.roomCode], lastEvent'.playerId) # -1
        /\ currentPlayerId(gameStore[lastEvent'.roomCode]) # lastEvent'.playerId )
      => currentPlayerId(gameStore'[lastEvent'.roomCode])
           = currentPlayerId(gameStore[lastEvent'.roomCode]) ]_vars

\* C37: each queued player is placed in at most one matched room: no player
\* is in the player lists of two rooms, and every player of a room that a
\* tick creates is in the queue when the room is created
roomPlayers(room) == {room.players[i] : i \in 1..Len(room.players)}

C37_MatchedOnce ==
  [][ /\ \A r1, r2 \in DOMAIN roomStore' :
           r1 # r2 => roomPlayers(roomStore'[r1]) \cap roomPlayers(roomStore'[r2]) = {}
      /\ \A r \in DOMAIN roomStore' \ DOMAIN roomStore :
           lastEvent'.op = "match_found"
             => \A p \in roomPlayers(roomStore'[r]) : p \in DOMAIN matchmakingQueue ]_vars

\* C38: in every stored game state consecutiveSixes is 0, 1 or 2 and is the
\* number of sixes that the current player has rolled in a row since the turn
\* was handed over; it is 0 after every roll that is not a 6 and after every
\* switchTurn
sixesOf(history, playerId) ==
  IF history.playerId = playerId THEN history.count ELSE 0

C38_SixesCounted ==
  [][ \A r \in DOMAIN gameStore' :
        LET after == gameStore'[r]
            e     == lastEvent'
        IN  /\ after.consecutiveSixes \in 0..2
            /\ after.consecutiveSixes = sixesOf(turnSixes', currentPlayerId(after))
            /\ ( /\ e.op = "roll_dice" /\ e.success /\ e.roomCode = r
                 /\ (e.diceValue # 6 \/ e.skipTurn) )
                 => after.consecutiveSixes = 0
            /\ ( /\ e.op = "move_token" /\ e.success /\ e.roomCode = r
                 /\ ~e.extraTurn /\ after.phase # FINISHED )
                 => after.consecutiveSixes = 0 ]_vars

\* C39: dice and phase stay coupled in every stored game state: in phase
\* ROLLING there is no dice value, and in phase MOVING the dice value is in
\* 1..6 and is the one of the current player's latest roll
C39_DiceFollowsPhase ==
  \A r \in DOMAIN gameStore :
    LET gameState == gameStore[r]
    IN  /\ gameState.phase = ROLLING => gameState.diceValue = null
        /\ gameState.phase = MOVING =>
             /\ gameState.diceValue \in 1..6
             /\ pendingRoll.playerId = currentPlayerId(gameState)
             /\ pendingRoll.diceValue = gameState.diceValue

\* C40: turn rotation is fair and the game never blocks: in a game that is
\* not finished some roll or some move is accepted, and every player with
\* rank 0 becomes the current player again and again
inPlay(playerId) ==
  \E i \in 1..Len(game.players) :
    game.players[i].playerId = playerId /\ game.players[i].rank = 0

someIntentAccepted ==
  \/ \E p \in PlayerIds, random \in DiceFaces :
       rollDice(gameStore, ROOM, p, random).success
  \/ /\ game.diceValue # null
     /\ \E m \in TurnIntents :
          moveToken(gameStore, ROOM, m.playerId, m.tokenId, m.target).success

C40_FairRotation ==
  /\ [](game.phase # FINISHED => someIntentAccepted)
  /\ \A p \in {"p1", "p2", "p3"} :
       []<>(game.phase = FINISHED \/ ~inPlay(p) \/ currentPlayerId(game) = p)

====
